---- MODULE Spec2Model ----
(***************************************************************************)
(* Filesystem tree operations of n8n-nodes-klib (FsOperate / FsUtils):     *)
(* directory protection, deleteFiles, moveFiles, rename, flattenDirectory, *)
(* cleanEmptyDirectories and fixFileNames over a POSIX directory tree.     *)
(*                                                                         *)
(* A character is a one-character string; a name (path segment) is a       *)
(* sequence of characters; a path string is the sequence of the segments   *)
(* obtained by splitting it at "/" (so "/etc/x" is << <<>>, etc, x >> and  *)
(* "/" is << <<>>, <<>> >>).  The filesystem is keyed by resolved paths:   *)
(* the sequence of the non-empty segments of the normalized path.          *)
(***************************************************************************)
EXTENDS Integers, Sequences, FiniteSets, TLC

VARIABLES
    pre,      \* the tree before the call: [dirs, files], sets of resolved paths
    fs,       \* the tree now
    order,    \* the order in which readdir lists a directory ("asc" | "desc")
    op,       \* the operation that was invoked ("none" before the call)
    args,     \* its options object
    out,      \* the list it returned (or had collected when it threw)
    err,      \* "" when it returned, otherwise the error it threw
    log,      \* the checks and filesystem side effects it performed, in order
    poll      \* the run of HttpPoll.execute: its position, counters and resources

vars == <<pre, fs, order, op, args, out, err, log, poll>>

----------------------------------------------------------------------------
(* Characters and names *)

\* An optional value: None when the property is undefined, Some(v) otherwise.
None == <<>>
Some(v) == <<v>>

EmptySeg == <<>>
Dot == <<".">>
DotDot == <<".", ".">>

N_home == <<"h", "o", "m", "e">>
N_u == <<"u">>
N_r == <<"r">>
N_s == <<"s">>
N_t == <<"t">>
N_x == <<"x">>
N_y == <<"y">>
N_etc == <<"e", "t", "c">>
N_root == <<"r", "o", "o", "t">>
N_a_txt == <<"a", ".", "t", "x", "t">>
N_a_1_txt == <<"a", "_", "1", ".", "t", "x", "t">>
N_b_txt == <<"b", ".", "t", "x", "t">>
N_a_colon_b == <<"a", ":", "b">>
N_a_star_b == <<"a", "*", "b">>
N_a_b == <<"a", "_", "b">>
N_s_colon == <<"s", ":">>

DigitChars == <<"0", "1", "2", "3", "4", "5", "6", "7", "8", "9">>

\* String(n) for a natural number n, as a sequence of characters.
RECURSIVE Digits(_)
Digits(n) ==
    IF n < 10 THEN <<DigitChars[n + 1]>>
    ELSE Digits(n \div 10) \o <<DigitChars[(n % 10) + 1]>>

SetMax(S) == CHOOSE m \in S : \A k \in S : k <= m

\* s.startsWith(t) on character sequences
CharsStartWith(s, t) ==
    /\ Len(s) >= Len(t)
    /\ SubSeq(s, 1, Len(t)) = t

\* s.endsWith(t) on character sequences
CharsEndWith(s, t) ==
    /\ Len(s) >= Len(t)
    /\ SubSeq(s, Len(s) - Len(t) + 1, Len(s)) = t

\* path.extname(name): from the last "." to the end; "" when there is no "."
\* or the only "." is the first character ("..", is reported as "").
Extname(name) ==
    LET dots == {i \in 1..Len(name) : name[i] = "."}
    IN  IF dots = {} \/ name = DotDot THEN <<>>
        ELSE IF SetMax(dots) = 1 THEN <<>>
        ELSE SubSeq(name, SetMax(dots), Len(name))

\* path.basename(name, ext)
Basename(name, ext) ==
    IF ext # <<>> /\ Len(name) > Len(ext) /\ CharsEndWith(name, ext)
    THEN SubSeq(name, 1, Len(name) - Len(ext))
    ELSE name

----------------------------------------------------------------------------
(* Path strings (node's path module, POSIX flavour) *)

IsAbsolute(p) == Len(p) >= 2 /\ p[1] = EmptySeg
HasTrailingSep(p) == Len(p) >= 2 /\ p[Len(p)] = EmptySeg

\* normalizeString: drops "" and ".", resolves ".." against the segment before
\* it; above the root ".." is dropped (absolute) or kept (relative).
RECURSIVE NormalizeString(_, _, _)
NormalizeString(segs, acc, allowAboveRoot) ==
    IF segs = <<>> THEN acc
    ELSE LET h == Head(segs)
             rest == Tail(segs)
         IN  IF h = EmptySeg \/ h = Dot
             THEN NormalizeString(rest, acc, allowAboveRoot)
             ELSE IF h = DotDot
             THEN IF acc # <<>> /\ acc[Len(acc)] # DotDot
                  THEN NormalizeString(rest, SubSeq(acc, 1, Len(acc) - 1), allowAboveRoot)
                  ELSE IF allowAboveRoot
                  THEN NormalizeString(rest, Append(acc, DotDot), allowAboveRoot)
                  ELSE NormalizeString(rest, acc, allowAboveRoot)
             ELSE NormalizeString(rest, Append(acc, h), allowAboveRoot)

\* path.normalize(p)
Normalize(p) ==
    IF p = <<EmptySeg>> THEN <<Dot>>
    ELSE LET abs == IsAbsolute(p)
             trail == HasTrailingSep(p)
             core == NormalizeString(p, <<>>, ~abs)
         IN  IF core = <<>>
             THEN IF abs THEN <<EmptySeg, EmptySeg>>
                  ELSE IF trail THEN <<Dot, EmptySeg>> ELSE <<Dot>>
             ELSE (IF abs THEN <<EmptySeg>> ELSE <<>>) \o core
                  \o (IF trail THEN <<EmptySeg>> ELSE <<>>)

\* s.startsWith(t) on path strings: all segments of t but the last are whole
\* segments of s, and the last is a prefix of the segment of s at its place.
PathStartsWith(s, t) ==
    /\ Len(s) >= Len(t)
    /\ SubSeq(s, 1, Len(t) - 1) = SubSeq(t, 1, Len(t) - 1)
    /\ CharsStartWith(s[Len(t)], t[Len(t)])

\* p + path.sep
PlusSep(p) == Append(p, EmptySeg)

\* p.split(path.sep).filter(part => part !== '')
Parts(p) == SelectSeq(p, LAMBDA seg : seg # EmptySeg)

\* The path the kernel resolves an absolute path string to.
Resolve(p) == Parts(Normalize(p))

\* The path string of a resolved path.
Str(rp) == IF rp = <<>> THEN <<EmptySeg, EmptySeg>> ELSE <<EmptySeg>> \o rp

\* path.join(dir, name) = normalize(dir + "/" + name)
Join(dir, name) == Normalize(Append(dir, name))

\* path.dirname(p) for an absolute path string
Dirname(p) ==
    LET q == IF HasTrailingSep(p) /\ Len(p) > 2 THEN SubSeq(p, 1, Len(p) - 1) ELSE p
    IN  IF Len(q) <= 2 THEN <<EmptySeg, EmptySeg>>
        ELSE SubSeq(q, 1, Len(q) - 1)

\* path.basename(p) for a path string
PathBasename(p) ==
    LET parts == Parts(p)
    IN  IF parts = <<>> THEN EmptySeg ELSE parts[Len(parts)]

----------------------------------------------------------------------------
(* directoryProtection.ts *)

W_C == <<"C", ":", "\\">>
W_Windows == W_C \o <<"W", "i", "n", "d", "o", "w", "s">>
W_Users == W_C \o <<"U", "s", "e", "r", "s">>
W_System32 == W_C \o <<"S", "y", "s", "t", "e", "m", "3", "2">>
W_ProgramFiles == W_C \o <<"P", "r", "o", "g", "r", "a", "m", " ", "F", "i", "l", "e", "s">>
W_ProgramFilesX86 == W_ProgramFiles \o <<" ", "(", "x", "8", "6", ")">>

PROTECTED_DIRS == {
    <<EmptySeg, EmptySeg>>,
    <<EmptySeg, <<"b", "i", "n">> >>,
    <<EmptySeg, <<"b", "o", "o", "t">> >>,
    <<EmptySeg, <<"d", "e", "v">> >>,
    <<EmptySeg, N_etc>>,
    <<EmptySeg, <<"l", "i", "b">> >>,
    <<EmptySeg, <<"l", "i", "b", "6", "4">> >>,
    <<EmptySeg, <<"p", "r", "o", "c">> >>,
    <<EmptySeg, N_root>>,
    <<EmptySeg, <<"r", "u", "n">> >>,
    <<EmptySeg, <<"s", "b", "i", "n">> >>,
    <<EmptySeg, <<"s", "r", "v">> >>,
    <<EmptySeg, <<"s", "y", "s">> >>,
    <<W_C>>,
    <<W_Windows>>,
    <<W_ProgramFiles>>,
    <<W_ProgramFilesX86>>,
    <<W_Users>>,
    <<W_System32>> }

MIN_DIRECTORY_DEPTH == 3
MAX_DIRECTORY_DEPTH == 10

DEFAULT_PROTECTION_CONFIG ==
    [minDepth |-> MIN_DIRECTORY_DEPTH,
     maxDepth |-> MAX_DIRECTORY_DEPTH,
     allowProtectedDirs |-> FALSE]

\* a ?? b
Coalesce(a, b) == IF a = None THEN b ELSE a[1]

\* The protectionConfig argument left out (config = {}).
NoConfig == [minDepth |-> None, maxDepth |-> None, allowProtectedDirs |-> None]

PathDepth(dirPath) == Len(Parts(Normalize(dirPath)))

\* depth < minDepth || depth > maxDepth does not hold
DepthInRange(depth, minDepth, maxDepth) == ~(depth < minDepth \/ depth > maxDepth)

\* checkDirectoryDepth: TRUE when it returns, FALSE when it throws.
checkDirectoryDepth(dirPath, config) ==
    DepthInRange(PathDepth(dirPath),
                 Coalesce(config.minDepth, DEFAULT_PROTECTION_CONFIG.minDepth),
                 Coalesce(config.maxDepth, DEFAULT_PROTECTION_CONFIG.maxDepth))

\* normalizedPath === normalizedProtectedDir ||
\* normalizedPath.startsWith(normalizedProtectedDir + path.sep)
IsOrStartsWith(normalizedPath, normalizedProtectedDir) ==
    \/ normalizedPath = normalizedProtectedDir
    \/ PathStartsWith(normalizedPath, PlusSep(normalizedProtectedDir))

\* PROTECTED_DIRS.some(...)
SomeProtectedDir(normalizedPath) ==
    \E protectedDir \in PROTECTED_DIRS :
        IsOrStartsWith(normalizedPath, Normalize(protectedDir))

\* isProtectedDirectory without the startsWith test: only the listed paths
\* themselves are protected.
isProtectedDirectoryExact(dirPath, config) ==
    /\ ~Coalesce(config.allowProtectedDirs, DEFAULT_PROTECTION_CONFIG.allowProtectedDirs)
    /\ \E protectedDir \in PROTECTED_DIRS : Normalize(dirPath) = Normalize(protectedDir)

isProtectedDirectory(dirPath, config) ==
    IF Coalesce(config.allowProtectedDirs, DEFAULT_PROTECTION_CONFIG.allowProtectedDirs)
    THEN FALSE
    ELSE SomeProtectedDir(Normalize(dirPath))

\* checkDirectorySafety without its call of checkDirectoryDepth.
checkDirectorySafetyNoDepth(dirPath, config) ==
    IF isProtectedDirectory(dirPath, config) THEN "ProtectedPathError" ELSE ""

\* checkDirectorySafety: "" when it returns, otherwise the error it throws.
checkDirectorySafety(dirPath, config) ==
    IF isProtectedDirectory(dirPath, config) THEN "ProtectedPathError"
    ELSE IF ~checkDirectoryDepth(dirPath, config) THEN "DepthRangeError"
    ELSE ""

----------------------------------------------------------------------------
(* Character codes and the order of names *)

AsciiPrintable ==
    <<" ", "!", "U+0022", "#", "$", "%", "&", "'", "(", ")", "*", "+", ",", "-", ".", "/",
      "0", "1", "2", "3", "4", "5", "6", "7", "8", "9", ":", ";", "<", "=", ">", "?",
      "@", "A", "B", "C", "D", "E", "F", "G", "H", "I", "J", "K", "L", "M", "N", "O",
      "P", "Q", "R", "S", "T", "U", "V", "W", "X", "Y", "Z", "[", "\\", "]", "^", "_",
      "U+0060", "a", "b", "c", "d", "e", "f", "g", "h", "i", "j", "k", "l", "m", "n", "o",
      "p", "q", "r", "s", "t", "u", "v", "w", "x", "y", "z", "{", "|", "}", "~">>

\* The double quote (code 34), the backquote (code 96) and the characters outside
\* printable ASCII are
\* written as tokens naming the code unit.
OtherChars ==
    { [ch |-> "U+0009", code |-> 9],        \* tab
      [ch |-> "U+00E9", code |-> 233],      \* e acute
      [ch |-> "U+0444", code |-> 1092],     \* cyrillic ef
      [ch |-> "U+3042", code |-> 12354],    \* hiragana a
      [ch |-> "U+30A2", code |-> 12450],    \* katakana a
      [ch |-> "U+4E2D", code |-> 20013] }   \* CJK zhong

Chars == {AsciiPrintable[i] : i \in 1..Len(AsciiPrintable)} \cup {o.ch : o \in OtherChars}

\* c.charCodeAt(0)
CodeOf ==
    [c \in Chars |->
        IF \E o \in OtherChars : o.ch = c
        THEN (CHOOSE o \in OtherChars : o.ch = c).code
        ELSE 31 + (CHOOSE i \in 1..Len(AsciiPrintable) : AsciiPrintable[i] = c)]

\* a < b as strings
NameLess(a, b) ==
    \/ Len(a) < Len(b) /\ SubSeq(b, 1, Len(a)) = a
    \/ \E i \in 1..Len(a) :
          /\ i <= Len(b)
          /\ SubSeq(a, 1, i - 1) = SubSeq(b, 1, i - 1)
          /\ CodeOf[a[i]] < CodeOf[b[i]]

\* n comes before m in the order ord
Before(n, m, ord) == NameLess(IF ord = "asc" THEN n ELSE m, IF ord = "asc" THEN m ELSE n)

\* The name of S that is listed first.
First(S, ord) == CHOOSE n \in S : \A m \in S \ {n} : Before(n, m, ord)

RECURSIVE SortNames(_, _)
RECURSIVE SortFrom(_, _, _)
SortFrom(S, first, ord) == <<first>> \o SortNames(S \ {first}, ord)
SortNames(S, ord) == IF S = {} THEN <<>> ELSE SortFrom(S, First(S, ord), ord)

----------------------------------------------------------------------------
(* The filesystem and the fs calls.  A run is threaded through a record     *)
(* st = [dirs, files, out, err, log]; once err is set (an exception is      *)
(* propagating) every later call leaves st alone.                           *)

IsPrefix(a, b) == Len(a) <= Len(b) /\ SubSeq(b, 1, Len(a)) = a
Prefixes(rp) == {SubSeq(rp, 1, k) : k \in 1..Len(rp)}
Parent(rp) == SubSeq(rp, 1, Len(rp) - 1)

IsDir(st, rp) == rp = <<>> \/ rp \in st.dirs
IsFile(st, rp) == rp \in st.files
Exists(st, rp) == IsDir(st, rp) \/ IsFile(st, rp)
Under(st, rp) == {q \in st.dirs \cup st.files : IsPrefix(rp, q)}
ChildNames(st, rp) ==
    {q[Len(q)] : q \in {c \in st.dirs \cup st.files : Len(c) = Len(rp) + 1 /\ IsPrefix(rp, c)}}

Logged(st, ev, p) == [st EXCEPT !.log = Append(@, [ev |-> ev, path |-> p])]
Throw(st, e) == [st EXCEPT !.err = e]
Push(st, v) == IF st.err # "" THEN st ELSE [st EXCEPT !.out = Append(@, v)]
Failed(st) == st.err # ""

\* fs.promises.stat(p): "dir", "file" or "ENOENT"
StatResolved(st, rp) ==
    IF IsDir(st, rp) THEN "dir" ELSE IF IsFile(st, rp) THEN "file" ELSE "ENOENT"
Stat(st, p) == StatResolved(st, Resolve(p))

\* fs.promises.readdir(p): the names in p, in the order the system lists them
Readdir(st, p, ord) == SortNames(ChildNames(st, Resolve(p)), ord)

\* fs.promises.mkdir(p, { recursive: true })
MkdirpResolved(st, p, rp) ==
    IF \E q \in Prefixes(rp) : q \in st.files
    THEN Throw(st, IF rp \in st.files THEN "EEXIST" ELSE "ENOTDIR")
    ELSE Logged([st EXCEPT !.dirs = @ \cup Prefixes(rp)], "mkdir", p)
Mkdirp(st, p) == IF Failed(st) THEN st ELSE MkdirpResolved(st, p, Resolve(p))

\* q, which lies under from, moved under to
Rebase(q, from, to) == to \o SubSeq(q, Len(from) + 1, Len(q))

\* The tree with all that is at or below rf moved to rt.
Moved(st, rf, rt) ==
    [st EXCEPT
        !.dirs = {q \in @ \ {rt} : ~IsPrefix(rf, q)}
                   \cup {Rebase(q, rf, rt) : q \in {d \in @ : IsPrefix(rf, d)}},
        !.files = {q \in @ \ {rt} : ~IsPrefix(rf, q)}
                   \cup {Rebase(q, rf, rt) : q \in {f \in @ : IsPrefix(rf, f)}}]

\* fs.promises.rename(from, to)
RenameResolved(st, from, rf, rt) ==
    IF rf = <<>> \/ rt = <<>> THEN Throw(st, "EBUSY")
    ELSE IF rf \in st.denied THEN Throw(Logged(st, "refused", from), "EPERM")
    ELSE IF ~Exists(st, rf) \/ ~IsDir(st, Parent(rt)) THEN Throw(st, "ENOENT")
    ELSE IF rf = rt THEN Logged(st, "rename", from)
    ELSE IF IsDir(st, rf) /\ IsPrefix(rf, rt) THEN Throw(st, "EINVAL")
    ELSE IF IsDir(st, rf) /\ IsFile(st, rt) THEN Throw(st, "ENOTDIR")
    ELSE IF IsFile(st, rf) /\ IsDir(st, rt) THEN Throw(st, "EISDIR")
    ELSE IF IsDir(st, rt) /\ Under(st, rt) # {rt} THEN Throw(st, "ENOTEMPTY")
    ELSE Logged(Moved(st, rf, rt), "rename", from)
Rename(st, from, to) ==
    IF Failed(st) THEN st ELSE RenameResolved(st, from, Resolve(from), Resolve(to))

\* fs.promises.unlink(p)
UnlinkResolved(st, p, rp) ==
    IF IsFile(st, rp) THEN Logged([st EXCEPT !.files = @ \ {rp}], "unlink", p)
    ELSE IF IsDir(st, rp) THEN Throw(st, "EISDIR")
    ELSE Throw(st, "ENOENT")
Unlink(st, p) == IF Failed(st) THEN st ELSE UnlinkResolved(st, p, Resolve(p))

\* fs.promises.rmdir(p)
RmdirResolved(st, p, rp) ==
    IF IsFile(st, rp) THEN Throw(st, "ENOTDIR")
    ELSE IF ~IsDir(st, rp) THEN Throw(st, "ENOENT")
    ELSE IF rp = <<>> THEN Throw(st, "EBUSY")
    ELSE IF Under(st, rp) # {rp} THEN Throw(st, "ENOTEMPTY")
    ELSE Logged([st EXCEPT !.dirs = @ \ {rp}], "rmdir", p)
Rmdir(st, p) == IF Failed(st) THEN st ELSE RmdirResolved(st, p, Resolve(p))

\* fs.promises.rmdir(p, { recursive: true })
RmdirRecursiveResolved(st, p, rp) ==
    IF IsFile(st, rp) THEN Throw(st, "ENOTDIR")
    ELSE IF ~IsDir(st, rp) THEN Throw(st, "ENOENT")
    ELSE IF rp = <<>> THEN Throw(st, "EBUSY")
    ELSE Logged([st EXCEPT !.dirs = {q \in @ : ~IsPrefix(rp, q)},
                           !.files = {q \in @ : ~IsPrefix(rp, q)}],
                "rmdir", p)
RmdirRecursive(st, p) ==
    IF Failed(st) THEN st ELSE RmdirRecursiveResolved(st, p, Resolve(p))

\* checkDirectorySafety returned (error = "") or threw error.
Checked(st, p, error) == IF error # "" THEN Throw(st, error) ELSE Logged(st, "check", p)

\* The call of checkDirectorySafety(p, config) at the head of an operation.
Guard(st, p, config) ==
    IF Failed(st) THEN st ELSE Checked(st, p, checkDirectorySafety(p, config))

----------------------------------------------------------------------------
(* Patterns.  A pattern is a string of literal characters (no regular       *)
(* expression metacharacter); the empty pattern matches every name.         *)

\* new RegExp(pattern).test(name) for a literal pattern: name contains it
RegexTest(pattern, name) ==
    \E i \in 1..(Len(name) + 1) :
        /\ i + Len(pattern) - 1 <= Len(name)
        /\ SubSeq(name, i, i + Len(pattern) - 1) = pattern

\* !regex || regex.test(name), with regex = pattern ? new RegExp(pattern) : null
MatchesOptional(pattern, name) == pattern = <<>> \/ RegexTest(pattern, name)

\* name.replace(new RegExp(pattern), replacement): the first match is replaced
ReplaceFirst(name, pattern, replacement) ==
    LET hits == {i \in 1..(Len(name) + 1) :
                    /\ i + Len(pattern) - 1 <= Len(name)
                    /\ SubSeq(name, i, i + Len(pattern) - 1) = pattern}
    IN  IF hits = {} THEN name
        ELSE LET i == CHOOSE h \in hits : \A k \in hits : h <= k
             IN  SubSeq(name, 1, i - 1) \o replacement
                 \o SubSeq(name, i + Len(pattern), Len(name))

ShellSpecialChars == {".", "*", "+", "?", "^", "$", "{", "}", "(", ")", "|", "[", "]", "\\"}

\* utils.convertToShellRegex(pattern) for a pattern without character classes:
\* every special character gets a backslash in front of it.
RECURSIVE convertToShellRegex(_)
convertToShellRegex(regex) ==
    IF regex = <<>> THEN <<>>
    ELSE (IF Head(regex) \in ShellSpecialChars THEN <<"\\", Head(regex)>> ELSE <<Head(regex)>>)
         \o convertToShellRegex(Tail(regex))

\* The characters of a path string.
RECURSIVE PathChars(_)
PathChars(p) ==
    IF p = <<>> THEN <<>>
    ELSE IF Len(p) = 1 THEN p[1]
    ELSE p[1] \o <<"/">> \o PathChars(Tail(p))

\* The literal string a converted pattern stands for (escapes removed).
RECURSIVE Unescape(_)
Unescape(re) ==
    IF re = <<>> THEN <<>>
    ELSE IF Head(re) = "\\" /\ Len(re) >= 2 THEN <<re[2]>> \o Unescape(SubSeq(re, 3, Len(re)))
    ELSE <<Head(re)>> \o Unescape(Tail(re))

\* find -regex shellPattern: the pattern must match the whole path
FindRegexMatch(shellPattern, p) == PathChars(p) = Unescape(shellPattern)

\* processFileExtensions: each extension gets its leading "."
processFileExtensions(extensions) ==
    [i \in 1..Len(extensions) |->
        IF CharsStartWith(extensions[i], <<".">>) THEN extensions[i]
        ELSE <<".">> \o extensions[i]]

\* find -name "*ext"
NameHasExtension(name, exts) == \E i \in 1..Len(exts) : CharsEndWith(name, exts[i])

----------------------------------------------------------------------------
(* Directory listings *)

TypeOf(st, rp) == IF IsDir(st, rp) THEN "dir" ELSE "file"

\* The Dirent of every name of the directory rp.
Dirents(st, rp, names) ==
    [i \in 1..Len(names) |-> [name |-> names[i], type |-> TypeOf(st, Append(rp, names[i]))]]

\* fs.promises.readdir(p, { withFileTypes: true })
ReaddirTyped(st, p, ord) == Dirents(st, Resolve(p), Readdir(st, p, ord))

\* What find prints for the tree at path string p: p, then the trees of its
\* children, down to maxdepth levels below p.
RECURSIVE FindList(_, _, _, _)
RECURSIVE FindChildren(_, _, _, _, _)
FindList(st, p, ord, maxdepth) ==
    <<p>> \o (IF IsDir(st, Resolve(p)) /\ Resolve(p) \notin st.denied /\ maxdepth > 0
              THEN FindChildren(st, p, Readdir(st, p, ord), ord, maxdepth - 1)
              ELSE <<>>)
FindChildren(st, p, names, ord, maxdepth) ==
    IF names = <<>> THEN <<>>
    ELSE FindList(st, Join(p, Head(names)), ord, maxdepth)
         \o FindChildren(st, p, Tail(names), ord, maxdepth)

\* A depth no tree of the model reaches (find without -maxdepth).
Unlimited(st) == Cardinality(st.dirs) + 1

RemoveAll(st, rps) ==
    [st EXCEPT !.dirs = {q \in @ : ~\E rp \in rps : IsPrefix(rp, q)},
               !.files = {q \in @ : ~\E rp \in rps : IsPrefix(rp, q)}]

SeqToSet(sq) == {sq[i] : i \in 1..Len(sq)}

\* An array with all of vs pushed onto out.
PushAll(st, vs) == [st EXCEPT !.out = @ \o vs]

----------------------------------------------------------------------------
(* FsOperate/openrations: deleteFiles *)

\* The shell branch of deleteFiles (useShell), after the safety check.
ShellDelete(st, a, ord) ==
    LET dirPath == a.dirPath
        rp == Resolve(dirPath)
        maxdepth == IF a.recursive THEN Unlimited(st) ELSE 1
        listed == FindList(st, dirPath, ord, maxdepth)
        ran == Logged(st, "exec", dirPath)
    IN  IF a.fileExtensions # <<>>
        THEN \* find dirPath [-maxdepth 1] -type f ( -name "*ext" ... )
             IF ~Exists(st, rp) THEN Throw(ran, "ShellError")
             ELSE LET exts == processFileExtensions(a.fileExtensions)
                      hit == SelectSeq(listed, LAMBDA q :
                                 /\ IsFile(st, Resolve(q))
                                 /\ NameHasExtension(PathBasename(q), exts))
                  IN  IF a.stageTest THEN PushAll(ran, hit)
                      ELSE Push(RemoveAll(ran, {Resolve(q) : q \in SeqToSet(hit)}), dirPath)
        ELSE IF a.pattern # <<>>
        THEN \* find dirPath [-maxdepth 1] [-type f|d] -regex shellPattern
             IF ~Exists(st, rp) THEN Throw(ran, "ShellError")
             ELSE LET shellPattern == convertToShellRegex(a.pattern)
                      typeOk(q) ==
                          IF a.includeFiles /\ a.includeSubdirectories THEN TRUE
                          ELSE IF a.includeFiles THEN IsFile(st, Resolve(q))
                          ELSE IF a.includeSubdirectories THEN IsDir(st, Resolve(q))
                          ELSE TRUE
                      hit == SelectSeq(listed, LAMBDA q :
                                 typeOk(q) /\ FindRegexMatch(shellPattern, q))
                  IN  IF a.stageTest THEN PushAll(ran, hit)
                      ELSE Push(RemoveAll(ran, {Resolve(q) : q \in SeqToSet(hit)}), dirPath)
        ELSE IF ~Exists(st, rp)
        THEN Throw(st, "ShellError")   \* fs.statSync(dirPath) throws
        ELSE IF IsFile(st, rp)
        THEN \* echo dirPath | rm -f dirPath
             IF a.stageTest THEN Push(ran, dirPath)
             ELSE Push(RemoveAll(ran, {rp}), dirPath)
        ELSE IF a.recursive /\ a.includeSubdirectories
        THEN \* find dirPath -mindepth 1 -print | rm -rf dirPath/*
             IF a.stageTest THEN PushAll(ran, Tail(FindList(st, dirPath, ord, Unlimited(st))))
             ELSE Push(RemoveAll(ran, {Append(rp, n) : n \in ChildNames(st, rp)}), dirPath)
        ELSE \* find dirPath -maxdepth 1 -type f -print | rm -f dirPath/*
             IF a.stageTest
             THEN PushAll(ran, SelectSeq(FindList(st, dirPath, ord, 1),
                                         LAMBDA q : IsFile(st, Resolve(q))))
             ELSE LET gone == RemoveAll(ran, {Append(rp, n) : n \in ChildNames(st, rp)}
                                                \cap st.files)
                  IN  IF \E n \in ChildNames(st, rp) : IsDir(st, Append(rp, n))
                      THEN Throw(gone, "ShellError")   \* rm: cannot remove: Is a directory
                      ELSE Push(gone, dirPath)

\* DirectorySelected without the test of includeSubdirectories.
DirectorySelectedAlways(a, name) == MatchesOptional(a.pattern, name)

\* includeSubdirectories && (!regex || regex.test(entry.name))
DirectorySelected(a, name) ==
    a.includeSubdirectories /\ MatchesOptional(a.pattern, name)

\* deleteFiles.processDirectory(currentPath)
RECURSIVE DeleteProcessDirectory(_, _, _, _)
RECURSIVE DeleteEntries(_, _, _, _, _)
DeleteProcessDirectory(st, currentPath, a, ord) ==
    IF Failed(st) THEN st
    ELSE IF Stat(st, currentPath) # "dir" THEN Throw(st, "ENOENT")
    ELSE DeleteEntries(st, currentPath, ReaddirTyped(st, currentPath, ord), a, ord)
DeleteEntries(st, currentPath, entries, a, ord) ==
    IF entries = <<>> \/ Failed(st) THEN st
    ELSE LET entry == Head(entries)
             fullPath == Join(currentPath, entry.name)
             after ==
                 IF entry.type = "dir"
                 THEN LET sub == IF a.recursive
                                 THEN DeleteProcessDirectory(st, fullPath, a, ord)
                                 ELSE st
                      IN  IF DirectorySelected(a, entry.name)
                          THEN Push(IF a.stageTest THEN sub ELSE RmdirRecursive(sub, fullPath),
                                    fullPath)
                          ELSE sub
                 ELSE IF a.includeFiles /\ MatchesOptional(a.pattern, entry.name)
                 THEN Push(IF a.stageTest THEN st ELSE Unlink(st, fullPath), fullPath)
                 ELSE st
         IN  DeleteEntries(after, currentPath, Tail(entries), a, ord)

deleteFiles(st, a, ord) ==
    LET checked == Guard(st, a.dirPath, a.protectionConfig)
    IN  IF Failed(checked) THEN checked
        ELSE IF a.deleteRootDir
        THEN Push(IF a.stageTest THEN checked ELSE RmdirRecursive(checked, a.dirPath),
                  a.dirPath)
        ELSE IF a.useShell THEN ShellDelete(checked, a, ord)
        ELSE IF Stat(checked, a.dirPath) = "ENOENT" THEN Throw(checked, "PathNotFoundError")
        ELSE IF Stat(checked, a.dirPath) = "file"
        THEN Push(IF a.stageTest THEN checked ELSE Unlink(checked, a.dirPath), a.dirPath)
        ELSE DeleteProcessDirectory(checked, a.dirPath, a, ord)

----------------------------------------------------------------------------
(* FsOperate/openrations: moveFiles *)

\* path.join(targetDir, path.relative(sourcePath, fullPath))
TargetOf(sourcePath, targetDir, fullPath) ==
    LET rs == Resolve(sourcePath)
        rf == Resolve(fullPath)
    IN  Normalize(targetDir \o SubSeq(rf, Len(rs) + 1, Len(rf)))

\* mkdir(dirname(targetPath), { recursive: true }); rename(fullPath, targetPath)
\* unless stageTest; then moved.push(fullPath)
MoveOne(st, fullPath, targetPath, stageTest) ==
    Push(IF stageTest THEN st
         ELSE Rename(Mkdirp(st, Dirname(targetPath)), fullPath, targetPath),
         fullPath)

\* processDirectory(currentPath, sourcePath, targetDir, regex, recursive,
\*                  includeFiles, stageTest, moved)
RECURSIVE MoveProcessDirectory(_, _, _, _)
RECURSIVE MoveEntries(_, _, _, _, _)
MoveProcessDirectory(st, currentPath, a, ord) ==
    IF Failed(st) THEN st
    ELSE IF Stat(st, currentPath) # "dir" THEN Throw(st, "ENOENT")
    ELSE MoveEntries(st, currentPath, ReaddirTyped(st, currentPath, ord), a, ord)
MoveEntries(st, currentPath, entries, a, ord) ==
    IF entries = <<>> \/ Failed(st) THEN st
    ELSE LET entry == Head(entries)
             fullPath == Join(currentPath, entry.name)
             targetPath == TargetOf(a.sourcePath, a.targetDir, fullPath)
             after ==
                 IF entry.type = "dir"
                 THEN LET sub == IF a.recursive
                                 THEN MoveProcessDirectory(st, fullPath, a, ord)
                                 ELSE st
                      IN  IF RegexTest(a.pattern, entry.name)
                          THEN MoveOne(sub, fullPath, targetPath, a.stageTest)
                          ELSE sub
                 ELSE IF a.includeFiles /\ RegexTest(a.pattern, entry.name)
                 THEN MoveOne(st, fullPath, targetPath, a.stageTest)
                 ELSE st
         IN  MoveEntries(after, currentPath, Tail(entries), a, ord)

moveFiles(st, a, ord) ==
    LET checked == Guard(Guard(st, a.sourcePath, a.protectionConfig),
                         a.targetDir, a.protectionConfig)
        made == IF a.stageTest THEN checked ELSE Mkdirp(checked, a.targetDir)
        kind == Stat(made, a.sourcePath)
        direct == Join(a.targetDir, PathBasename(a.sourcePath))
    IN  IF Failed(made) THEN made
        ELSE IF kind = "ENOENT" THEN Throw(made, "ENOENT")
        ELSE IF kind = "file"
        THEN IF a.renameOnly
             THEN Push(IF a.stageTest THEN made ELSE Rename(made, a.sourcePath, direct),
                       a.sourcePath)
             ELSE IF a.includeFiles /\ RegexTest(a.pattern, PathBasename(a.sourcePath))
             THEN MoveOne(made, a.sourcePath, direct, a.stageTest)
             ELSE made
        ELSE IF a.renameOnly
        THEN Push(IF a.stageTest THEN made ELSE Rename(made, a.sourcePath, direct),
                  a.sourcePath)
        ELSE MoveProcessDirectory(made, a.sourcePath, a, ord)

----------------------------------------------------------------------------
(* FsOperate/openrations: rename *)

rename(st, a) ==
    LET made == Mkdirp(st, Dirname(a.targetPath))
        kind == Stat(made, a.sourcePath)
        subject == IF kind = "file" THEN PathBasename(a.targetPath)
                   ELSE PathBasename(a.sourcePath)
        isRenamed == /\ a.pattern # <<>>
                     /\ a.replacement # <<>>
                     /\ RegexTest(a.pattern, subject)
        finalTargetPath ==
            IF isRenamed
            THEN Join(Dirname(a.targetPath), ReplaceFirst(subject, a.pattern, a.replacement))
            ELSE a.targetPath
        done == Rename(made, a.sourcePath, finalTargetPath)
    IN  IF Failed(made) THEN made
        ELSE IF kind = "ENOENT" THEN Throw(made, "ENOENT")
        ELSE IF isRenamed \/ a.sourcePath # finalTargetPath
        THEN Push(done, finalTargetPath)
        ELSE done

----------------------------------------------------------------------------
(* cleanEmptyDirectories *)

\* guarded: the variant that takes a protectionConfig and checks every
\* directory it is called on; the other variant performs no check.
RECURSIVE cleanEmptyDirectories(_, _, _, _, _, _)
RECURSIVE CleanEntries(_, _, _, _, _, _, _)

\* cleanEmptyDirectories that never descends into the subdirectories.
cleanEmptyDirectoriesTopOnly(st, dirPath, recursive, protectionConfig, guarded, ord) ==
    LET checked == IF guarded THEN Guard(st, dirPath, protectionConfig) ELSE st
    IN  IF Failed(checked) THEN checked
        ELSE IF dirPath = <<EmptySeg>> THEN Throw(checked, "EmptyPathError")
        ELSE IF Stat(checked, dirPath) # "dir" THEN Throw(checked, "CannotAccessError")
        ELSE CleanEntries(checked, dirPath, Readdir(checked, dirPath, ord),
                          FALSE, protectionConfig, guarded, ord)

cleanEmptyDirectories(st, dirPath, recursive, protectionConfig, guarded, ord) ==
    LET checked == IF guarded THEN Guard(st, dirPath, protectionConfig) ELSE st
    IN  IF Failed(checked) THEN checked
        ELSE IF dirPath = <<EmptySeg>> THEN Throw(checked, "EmptyPathError")
        ELSE IF Stat(checked, dirPath) # "dir" THEN Throw(checked, "CannotAccessError")
        ELSE CleanEntries(checked, dirPath, Readdir(checked, dirPath, ord),
                          recursive, protectionConfig, guarded, ord)
CleanEntries(st, dirPath, names, recursive, protectionConfig, guarded, ord) ==
    IF names = <<>> \/ Failed(st) THEN st
    ELSE LET fullPath == Join(dirPath, Head(names))
             after ==
                 IF Stat(st, fullPath) = "ENOENT" THEN Throw(st, "ENOENT")
                 ELSE IF Stat(st, fullPath) = "dir"
                 THEN LET sub == IF recursive
                                 THEN cleanEmptyDirectories(st, fullPath, TRUE,
                                                            protectionConfig, guarded, ord)
                                 ELSE st
                      IN  IF Failed(sub) THEN sub
                          ELSE IF Readdir(sub, fullPath, ord) = <<>>
                          THEN Rmdir(sub, fullPath)
                          ELSE sub
                 ELSE st
         IN  CleanEntries(after, dirPath, Tail(names), recursive, protectionConfig,
                          guarded, ord)

----------------------------------------------------------------------------
(* fixFileNames *)

MAX_NAME_LENGTH == 255

UnnamedFile == <<"u", "n", "n", "a", "m", "e", "d", "_", "f", "i", "l", "e">>

WindowsIllegalChars == {"<", ">", ":", "U+0022", "/", "\\", "|", "?", "*"}

\* The character kept by the first loop of sanitizeFileName, or "_".
KeptChar(c) ==
    LET charCode == CodeOf[c]
    IN  IF \/ (charCode >= 32 /\ charCode <= 126)
           \/ (charCode >= 19968 /\ charCode <= 40959)
           \/ (charCode >= 12352 /\ charCode <= 12447)
           \/ (charCode >= 12448 /\ charCode <= 12543)
        THEN c ELSE "_"

\* s.replace(/_+/g, '_')
RECURSIVE CollapseUnderscores(_)
CollapseJoin(l, r) ==
    IF l[Len(l)] = "_" /\ r[1] = "_" THEN l \o Tail(r) ELSE l \o r
CollapseUnderscores(s) ==
    IF Len(s) < 2 THEN s
    ELSE CollapseJoin(CollapseUnderscores(SubSeq(s, 1, Len(s) \div 2)),
                      CollapseUnderscores(SubSeq(s, Len(s) \div 2 + 1, Len(s))))

\* The loop over the characters of fileName.
KeepChars(fileName) == [i \in 1..Len(fileName) |-> KeptChar(fileName[i])]

\* s.replace(/[<>:"/\\|?*]/g, '_')
ReplaceIllegal(s) == [i \in 1..Len(s) |-> IF s[i] \in WindowsIllegalChars THEN "_" ELSE s[i]]

\* if (!s.trim()) s = 'unnamed_file'
NonBlank(s) == IF \A i \in 1..Len(s) : s[i] = " " THEN UnnamedFile ELSE s

\* baseName.substring(0, 255 - ext.length) + ext
CutTo(baseName, ext, room) ==
    SubSeq(baseName, 1, IF room < 0 THEN 0 ELSE IF room < Len(baseName) THEN room
                                                ELSE Len(baseName)) \o ext

\* The last step of sanitizeFileName: names longer than 255 are cut.
Shorten(s) ==
    IF Len(s) > MAX_NAME_LENGTH
    THEN CutTo(Basename(s, Extname(s)), Extname(s), MAX_NAME_LENGTH - Len(Extname(s)))
    ELSE s

sanitizeFileName(fileName) ==
    Shorten(NonBlank(CollapseUnderscores(ReplaceIllegal(KeepChars(fileName)))))

FileProcessResult(originalPath, newPath, type, success, error) ==
    [originalPath |-> originalPath, newPath |-> newPath, type |-> type,
     success |-> success, error |-> error]

ResultType(t) == IF t = "dir" THEN "directory" ELSE "file"

\* `${baseName}_${n}${ext}`
Suffixed(name, n) ==
    Basename(name, Extname(name)) \o <<"_">> \o Digits(n) \o Extname(name)

\* new Date().getTime() has been read: the clock moves on.
Ticked(st) == [st EXCEPT !.now = @ + st.tick]

\* The target exists: rename to the name with the timestamp; when that throws,
\* the catch block renames to newPath.
RenameUnique(st, fullPath, newPath, uniquePath) ==
    IF ~Failed(Rename(Ticked(st), fullPath, uniquePath))
    THEN [st |-> Rename(Ticked(st), fullPath, uniquePath), newPath |-> uniquePath]
    ELSE [st |-> Rename(Ticked(st), fullPath, newPath), newPath |-> newPath]

RenameSanitized(st, dirPath, fullPath, name, newName) ==
    IF newName = name THEN [st |-> st, newPath |-> fullPath]
    ELSE IF Exists(st, Resolve(Join(dirPath, newName)))
    THEN RenameUnique(st, fullPath, Join(dirPath, newName),
                      Join(dirPath, Suffixed(newName, st.now)))
    ELSE [st |-> Rename(st, fullPath, Join(dirPath, newName)),
          newPath |-> Join(dirPath, newName)]

\* The rename of one entry in fixFileNamesFallback: the state after it and the
\* path the entry is at.  new Date().getTime() reads st.now.
FallbackRename(st, dirPath, name) ==
    RenameSanitized(st, dirPath, Join(dirPath, name), name, sanitizeFileName(name))

\* The catch block of the loop body: the entry is recorded as failed.
FailureRecord(results, bad, fullPath, type) ==
    [bad EXCEPT !.err = "",
                !.out = Append(results, FileProcessResult(fullPath, fullPath,
                                                      ResultType(type), FALSE, bad.err))]

\* The end of the loop body: the results of the subdirectory, then the entry's own.
EntryDone(results, sub, fullPath, newPath, type) ==
    IF Failed(sub) THEN FailureRecord(results, sub, fullPath, type)
    ELSE [sub EXCEPT !.out =
             results \o sub.out
             \o <<FileProcessResult(fullPath, newPath, ResultType(type), TRUE, "")>>]

RECURSIVE fixFileNamesFallback(_, _, _, _, _)
RECURSIVE FallbackEntries(_, _, _, _, _, _)
RECURSIVE FallbackDescend(_, _, _, _, _, _, _)
fixFileNamesFallback(st, dirPath, recursive, onlyDirectories, ord) ==
    IF Failed(st) THEN st
    ELSE IF Stat(st, dirPath) # "dir" THEN Throw(st, "ENOENT")
    ELSE FallbackEntries(st, dirPath, ReaddirTyped(st, dirPath, ord),
                         recursive, onlyDirectories, ord)

\* The loop body after the rename of the entry.
FallbackDescend(results, renamed, fullPath, type, recursive, onlyDirectories, ord) ==
    IF Failed(renamed.st) THEN FailureRecord(results, renamed.st, fullPath, type)
    ELSE EntryDone(results,
                   IF type = "dir" /\ recursive
                   THEN fixFileNamesFallback([renamed.st EXCEPT !.out = <<>>],
                                             renamed.newPath, recursive,
                                             onlyDirectories, ord)
                   ELSE [renamed.st EXCEPT !.out = <<>>],
                   fullPath, renamed.newPath, type)

FallbackEntries(st, dirPath, entries, recursive, onlyDirectories, ord) ==
    IF entries = <<>> THEN st
    ELSE FallbackEntries(
             IF onlyDirectories /\ Head(entries).type # "dir" THEN st
             ELSE FallbackDescend(st.out, FallbackRename(st, dirPath, Head(entries).name),
                                  Join(dirPath, Head(entries).name), Head(entries).type,
                                  recursive, onlyDirectories, ord),
             dirPath, Tail(entries), recursive, onlyDirectories, ord)

\* What `find dirPath [-maxdepth 1] (-type d | -type f -o -type d)` prints.
FixFind(st, dirPath, recursive, onlyDirectories, ord) ==
    SelectSeq(FindList(st, dirPath, ord, IF recursive THEN Unlimited(st) ELSE 1),
              LAMBDA q : ~onlyDirectories \/ IsDir(st, Resolve(q)))

\* shellWorks: the host can run sh, find, iconv and mv.  The names of the model
\* are valid UTF-8, so the iconv pass and the tr pass rename nothing.
fixFileNames(st, dirPath, recursive, onlyDirectories, shellWorks, ord) ==
    IF Failed(st) THEN st
    ELSE IF ~shellWorks
    THEN fixFileNamesFallback(st, dirPath, recursive, onlyDirectories, ord)
    ELSE IF ~Exists(st, Resolve(dirPath))
    THEN \* both find calls fail; the fallback is tried and fails on readdir
         fixFileNamesFallback(
             Logged(Logged(Logged(Logged(st, "exec", dirPath), "exec", dirPath),
                           "exec", dirPath), "exec", dirPath),
             dirPath, recursive, onlyDirectories, ord)
    ELSE LET listed == FixFind(st, dirPath, recursive, onlyDirectories, ord)
             others == SelectSeq(listed, LAMBDA q : q # dirPath)
         IN  PushAll(Logged(Logged(st, "exec", dirPath), "exec", dirPath),
                     [i \in 1..Len(others) |->
                         FileProcessResult(others[i], others[i],
                             ResultType(TypeOf(st, Resolve(others[i]))), TRUE, "")])

----------------------------------------------------------------------------
(* flattenDirectory *)

FlattenResult(originalPath, newPath, type, success) ==
    [originalPath |-> originalPath, newPath |-> newPath, type |-> type,
     success |-> success]

\* The collision loop left out: the first candidate is taken as it is.
FirstCandidate(st, dirPath, name, newPath, counter) == newPath

\* The loop `while (await pathExists(newPath))`, entered with newPath and counter.
RECURSIVE FreePath(_, _, _, _, _)
FreePath(st, dirPath, name, newPath, counter) ==
    IF Exists(st, Resolve(newPath))
    THEN FreePath(st, dirPath, name, Join(dirPath, Suffixed(name, counter)), counter + 1)
    ELSE newPath

\* try { rename; push success } catch { push failure }
Attempt(st, done, record) ==
    IF Failed(done)
    THEN [done EXCEPT !.err = "",
                      !.out = Append(st.out, [record EXCEPT !.success = FALSE])]
    ELSE Push(done, record)

RECURSIVE processFiles(_, _, _, _)
RECURSIVE ProcessItems(_, _, _, _, _)
processFiles(st, dir, dirPath, ord) ==
    IF Failed(st) THEN st
    ELSE IF Stat(st, dir) # "dir" THEN Throw(st, "ENOENT")
    ELSE ProcessItems(st, dir, ReaddirTyped(st, dir, ord), dirPath, ord)
ProcessItems(st, dir, items, dirPath, ord) ==
    IF items = <<>> \/ Failed(st) THEN st
    ELSE LET item == Head(items)
             fullPath == Join(dir, item.name)
             newPath == FreePath(st, dirPath, item.name, Join(dirPath, item.name), 1)
             after ==
                 IF item.type = "file"
                 THEN IF dir # dirPath
                      THEN Attempt(st, Rename(st, fullPath, newPath),
                                   FlattenResult(fullPath, newPath, "file", TRUE))
                      ELSE st
                 ELSE processFiles(st, fullPath, dirPath, ord)
         IN  ProcessItems(after, dir, Tail(items), dirPath, ord)

RECURSIVE removeEmptyDirs(_, _, _, _)
RECURSIVE RemoveItems(_, _, _, _, _)
removeEmptyDirs(st, dir, dirPath, ord) ==
    IF Failed(st) THEN st
    ELSE IF Stat(st, dir) # "dir" THEN Throw(st, "ENOENT")
    ELSE RemoveItems(st, dir, Readdir(st, dir, ord), dirPath, ord)
RemoveItems(st, dir, items, dirPath, ord) ==
    IF items = <<>> \/ Failed(st) THEN st
    ELSE LET fullPath == Join(dir, Head(items))
             sub == removeEmptyDirs(st, fullPath, dirPath, ord)
             after ==
                 IF Stat(st, fullPath) = "ENOENT" THEN Throw(st, "ENOENT")
                 ELSE IF Stat(st, fullPath) = "dir"
                 THEN IF Failed(sub) THEN sub
                      ELSE IF Readdir(sub, fullPath, ord) = <<>> /\ fullPath # dirPath
                      THEN Attempt(sub, Rmdir(sub, fullPath),
                                   FlattenResult(fullPath, <<EmptySeg>>, "directory", TRUE))
                      ELSE sub
                 ELSE st
         IN  RemoveItems(after, dir, Tail(items), dirPath, ord)

flattenDirectory(st, dirPath, protectionConfig, shellWorks, ord) ==
    LET checked == Guard(st, dirPath, protectionConfig)
        fixed == fixFileNames(checked, dirPath, TRUE, TRUE, shellWorks, ord)
        moved == processFiles([fixed EXCEPT !.out = <<>>], dirPath, dirPath, ord)
        results == removeEmptyDirs(moved, dirPath, dirPath, ord)
    IN  IF Failed(results) THEN [results EXCEPT !.out = <<>>]
        ELSE [results EXCEPT !.out =
                 [i \in 1..Len(@) |-> [source |-> @[i].originalPath,
                                       target |-> @[i].newPath]]]

----------------------------------------------------------------------------
(* FsUtils.node.ts: the deleteRootDir branch of the deleteFiles operation *)

FsUtilsDeleteRootDir(st, directoryPath) ==
    Push(RmdirRecursive(st, directoryPath), directoryPath)

----------------------------------------------------------------------------
(* listDirectory (src/unnamed/part_013)                                     *)
(* What fs.promises.stat reports as size and mtime of an entry is given by  *)
(* options.stats, a table from entry names to [size, mtime].                *)

MAX_LIST_DEPTH == 9

Min(a, b) == IF a < b THEN a ELSE b
Max(a, b) == IF a > b THEN a ELSE b

\* The characters that are not letters, in the order of the root collation
\* that localeCompare uses: space, punctuation, symbols, currency, digits.
CollationOrder ==
    <<" ", "_", "-", ",", ";", ":", "!", "?", ".", "'", "U+0022", "(", ")", "[", "]",
      "{", "}", "@", "*", "/", "\\", "&", "#", "%", "U+0060", "^", "+", "<", "=", ">",
      "|", "~", "$", "0", "1", "2", "3", "4", "5", "6", "7", "8", "9">>
LowerCase ==
    <<"a", "b", "c", "d", "e", "f", "g", "h", "i", "j", "k", "l", "m",
      "n", "o", "p", "q", "r", "s", "t", "u", "v", "w", "x", "y", "z">>
UpperCase ==
    <<"A", "B", "C", "D", "E", "F", "G", "H", "I", "J", "K", "L", "M",
      "N", "O", "P", "Q", "R", "S", "T", "U", "V", "W", "X", "Y", "Z">>

IndexIn(sq, c) == CHOOSE i \in 1..Len(sq) : sq[i] = c

\* Primary weight of a character: a letter weighs the same in both cases.
Primary ==
    [c \in SeqToSet(AsciiPrintable) |->
        IF c \in SeqToSet(CollationOrder) THEN IndexIn(CollationOrder, c)
        ELSE IF c \in SeqToSet(LowerCase) THEN Len(CollationOrder) + IndexIn(LowerCase, c)
        ELSE Len(CollationOrder) + IndexIn(UpperCase, c)]

\* Tertiary weight: lower case before upper case.
Tertiary == [c \in SeqToSet(AsciiPrintable) |-> IF c \in SeqToSet(UpperCase) THEN 1 ELSE 0]

\* x before y, sequences of numbers compared from the left
WeightsLess(x, y) ==
    \/ Len(x) < Len(y) /\ SubSeq(y, 1, Len(x)) = x
    \/ \E i \in 1..Len(x) :
          /\ i <= Len(y)
          /\ SubSeq(x, 1, i - 1) = SubSeq(y, 1, i - 1)
          /\ x[i] < y[i]

CollationKey(s) ==
    [primary |-> [i \in 1..Len(s) |-> Primary[s[i]]],
     tertiary |-> [i \in 1..Len(s) |-> Tertiary[s[i]]]]

CompareKeys(ka, kb) ==
    IF WeightsLess(ka.primary, kb.primary) THEN -1
    ELSE IF WeightsLess(kb.primary, ka.primary) THEN 1
    ELSE IF WeightsLess(ka.tertiary, kb.tertiary) THEN -1
    ELSE IF WeightsLess(kb.tertiary, ka.tertiary) THEN 1
    ELSE 0

\* a.localeCompare(b) for strings of printable ASCII
localeCompare(a, b) == CompareKeys(CollationKey(a), CollationKey(b))

\* The characters of the two values of FileInfo.type
TypeChars ==
    [directory |-> <<"d", "i", "r", "e", "c", "t", "o", "r", "y">>,
     file |-> <<"f", "i", "l", "e">>]

\* new RegExp(pattern) throws: the pattern opens a group it does not close.
RegExpThrows(pattern) ==
    \E i \in 1..Len(pattern) :
        /\ pattern[i] = "("
        /\ ~\E j \in (i + 1)..Len(pattern) : pattern[j] = ")"

\* hasSubDirectories: a failed access or readdir gives false.
hasSubDirectories(st, dirPath, ord) ==
    /\ Stat(st, dirPath) = "dir"
    /\ Resolve(dirPath) \notin st.denied
    /\ \E i \in 1..Len(Readdir(st, dirPath, ord)) :
          ReaddirTyped(st, dirPath, ord)[i].type = "dir"

FileInfo(st, options, dirPath, fullPath, isDirectory, currentDepth, ord) ==
    [name |-> PathBasename(fullPath),
     path |-> fullPath,
     parent |-> dirPath,
     type |-> IF isDirectory THEN "directory" ELSE "file",
     size |-> options.stats[PathBasename(fullPath)].size,
     mtime |-> options.stats[PathBasename(fullPath)].mtime,
     depth |-> currentDepth,
     hasSubDirs |-> IF isDirectory THEN hasSubDirectories(st, fullPath, ord) ELSE FALSE]

\* Shown without the test of onlyLeafDirs.
ShownWithSubDirs(options, fileInfo) ==
    \/ fileInfo.type = "file" /\ options.showFiles
    \/ fileInfo.type = "directory" /\ options.showDirectories

\* The entry is pushed onto results.
Shown(options, fileInfo) ==
    \/ fileInfo.type = "file" /\ options.showFiles
    \/ /\ ~(fileInfo.type = "file" /\ options.showFiles)
       /\ fileInfo.type = "directory" /\ options.showDirectories
       /\ (~options.onlyLeafDirs \/ ~fileInfo.hasSubDirs)

RECURSIVE listDirectoryRecursive(_, _, _, _, _, _)
RECURSIVE ListFiles(_, _, _, _, _, _, _)

\* ListDescend with the depth not counted up in the recursive call.
ListDescendSameDepth(st, options, fileInfo, currentDepth, results, ord) ==
    IF fileInfo.type = "directory" /\ currentDepth < Min(options.maxDepth, MAX_LIST_DEPTH)
    THEN listDirectoryRecursive(st, options, fileInfo.path, currentDepth, results, ord)
    ELSE results

\* The recursive call for a directory that is not at the last level.
ListDescend(st, options, fileInfo, currentDepth, results, ord) ==
    IF fileInfo.type = "directory" /\ currentDepth < Min(options.maxDepth, MAX_LIST_DEPTH)
    THEN listDirectoryRecursive(st, options, fileInfo.path, currentDepth + 1, results, ord)
    ELSE results

\* One turn of the loop over files.
ListOne(st, options, fileInfo, currentDepth, results, ord) ==
    ListDescend(st, options, fileInfo, currentDepth,
                IF Shown(options, fileInfo) THEN Append(results, fileInfo) ELSE results,
                ord)

ListFiles(st, options, dirPath, files, currentDepth, results, ord) ==
    IF files = <<>> THEN results
    ELSE IF Resolve(Join(dirPath, Head(files))) \in options.failing
    THEN results  \* stat has thrown: the catch of this level returns results
    ELSE ListFiles(st, options, dirPath, Tail(files), currentDepth,
                   ListOne(st, options,
                           FileInfo(st, options, dirPath, Join(dirPath, Head(files)),
                                    Stat(st, Join(dirPath, Head(files))) = "dir",
                                    currentDepth, ord),
                           currentDepth, results, ord),
                   ord)

\* A failed access or readdir is caught: the results so far are returned.
listDirectoryRecursive(st, options, dirPath, currentDepth, results, ord) ==
    IF currentDepth > Min(options.maxDepth, MAX_LIST_DEPTH) THEN results
    ELSE IF Stat(st, dirPath) # "dir" \/ Resolve(dirPath) \in st.denied THEN results
    ELSE ListFiles(st, options, dirPath, Readdir(st, dirPath, ord), currentDepth,
                   results, ord)

\* The value of comparison in the comparator of listDirectory.
ListComparison(a, b, sortBy) ==
    CASE sortBy = "name" -> localeCompare(a.name, b.name)
      [] sortBy = "mtime" -> b.mtime - a.mtime
      [] sortBy = "type" -> localeCompare(TypeChars[a.type], TypeChars[b.type])
      [] OTHER -> 0

\* ListCompare with the direction ignored.
ListCompareAscending(a, b, sortBy, sortDirection) == ListComparison(a, b, sortBy)

\* The comparator: any other sort key returns 0 for every pair.
ListCompare(a, b, sortBy, sortDirection) ==
    IF sortDirection = "asc" THEN ListComparison(a, b, sortBy)
    ELSE 0 - ListComparison(a, b, sortBy)

\* Array.prototype.sort is stable: e goes behind the elements not after it.
InsertBehind(sorted, e, k) == SubSeq(sorted, 1, k) \o <<e>> \o SubSeq(sorted, k + 1, Len(sorted))

RECURSIVE ListSort(_, _, _, _)
ListSort(sorted, rest, sortBy, sortDirection) ==
    IF rest = <<>> THEN sorted
    ELSE ListSort(InsertBehind(sorted, Head(rest),
                      Cardinality({i \in 1..Len(sorted) :
                          ListCompare(sorted[i], Head(rest), sortBy, sortDirection) <= 0})),
                  Tail(rest), sortBy, sortDirection)

\* The object returned for no result with returnSingleObject.
EmptyFileInfo(now) ==
    [name |-> <<>>, path |-> <<>>, parent |-> <<>>, type |-> "file", size |-> 0,
     mtime |-> now, depth |-> 0, hasSubDirs |-> FALSE]

\* slice(0, maxRecords) and returnSingleObject
ListReturned(st, options, sortedResults) ==
    [st EXCEPT !.out =
        IF options.returnSingleObject
        THEN IF sortedResults # <<>> /\ options.maxRecords > 0
             THEN sortedResults[1] ELSE EmptyFileInfo(st.now)
        ELSE SubSeq(sortedResults, 1, Min(options.maxRecords, Len(sortedResults)))]

\* The filter has compiled: the name filter, the exclude filter, the sort.
ListFiltered(st, options, results) ==
    ListReturned(st, options,
        ListSort(<<>>,
            SelectSeq(results, LAMBDA file :
                /\ options.filter = <<>> \/ RegexTest(options.filter, file.name)
                /\ ~(/\ options.excludePattern # <<>>
                     /\ ~RegExpThrows(options.excludePattern)
                     /\ RegexTest(options.excludePattern, file.name))),
            options.sortBy, options.sortDirection))

listDirectory(st, options, ord) ==
    IF options.filter # <<>> /\ RegExpThrows(options.filter) THEN Throw(st, "SyntaxError")
    ELSE ListFiltered(st, options,
             listDirectoryRecursive(
                 st, [options EXCEPT !.maxDepth = Min(Max(@, 1), MAX_LIST_DEPTH)],
                 options.dirPath, 1, <<>>, ord))

----------------------------------------------------------------------------
(* findFiles (src/nodes/FsUtils/operations/findFiles.ts) *)

\* fullPath + '/' and path.dirname(fullPath) + '/'
WithSlash(p) == Append(p, EmptySeg)

\* relativePath.split(path.sep).length: ''.split gives one empty string
FindDepth(dirPath, fullPath) ==
    Max(1, Len(Resolve(fullPath)) - Len(Resolve(dirPath)))

\* The FileInfo built from one line that find and stat have printed.
FindFileInfo(st, options, fullPath, isDirectory, ord) ==
    [name |-> PathBasename(fullPath),
     path |-> IF isDirectory THEN WithSlash(fullPath) ELSE fullPath,
     parent |-> WithSlash(Dirname(fullPath)),
     type |-> IF isDirectory THEN "directory" ELSE "file",
     size |-> options.stats[PathBasename(fullPath)].size,
     mtime |-> options.stats[PathBasename(fullPath)].mtime,
     depth |-> FindDepth(options.dirPath, fullPath),
     hasSubDirs |-> IF isDirectory THEN hasSubDirectories(st, fullPath, ord) ELSE FALSE]

\* The line passes onlyLeafDirs and the two name filters; a pattern that does
\* not compile is ignored.
FindKept(options, fileInfo) ==
    /\ ~(fileInfo.type = "directory" /\ options.onlyLeafDirs /\ fileInfo.hasSubDirs)
    /\ \/ options.filter = <<>>
       \/ RegExpThrows(options.filter)
       \/ RegexTest(options.filter, fileInfo.name)
    /\ ~(/\ options.excludePattern # <<>>
         /\ ~RegExpThrows(options.excludePattern)
         /\ RegexTest(options.excludePattern, fileInfo.name))

\* The comparator of findFiles.
FindCompare(a, b, sortBy, sortDirection) ==
    LET comparison ==
            CASE sortBy = "name" -> localeCompare(a.name, b.name)
              [] sortBy = "mtime" -> a.mtime - b.mtime
              [] sortBy = "type" -> localeCompare(TypeChars[a.type], TypeChars[b.type])
              [] sortBy = "size" -> a.size - b.size
              [] sortBy = "depth" -> a.depth - b.depth
              [] sortBy = "path" -> localeCompare(PathChars(a.path), PathChars(b.path))
              [] sortBy = "parent" -> localeCompare(PathChars(a.parent), PathChars(b.parent))
              [] OTHER -> 0
    IN  IF sortDirection = "asc" THEN comparison ELSE 0 - comparison

RECURSIVE FindSort(_, _, _, _)
FindSort(sorted, rest, sortBy, sortDirection) ==
    IF rest = <<>> THEN sorted
    ELSE FindSort(InsertBehind(sorted, Head(rest),
                      Cardinality({i \in 1..Len(sorted) :
                          FindCompare(sorted[i], Head(rest), sortBy, sortDirection) <= 0})),
                  Tail(rest), sortBy, sortDirection)

\* The lines of stdout turned into FileInfo records.
FindParsed(st, options, lines, ord) ==
    [i \in 1..Len(lines) |->
        FindFileInfo(st, options, lines[i], Stat(st, lines[i]) = "dir", ord)]

\* stdout of find "dirPath" -maxdepth maxDepth with the type conditions: the
\* first line find prints is dirPath itself.
FindStdout(st, options, ord) ==
    SelectSeq(FindParsed(st, options,
                  FindList(st, options.dirPath, ord, options.maxDepth), ord),
              LAMBDA fileInfo :
                  /\ Resolve(fileInfo.path) \notin options.failing
                  /\ IF fileInfo.type = "file" THEN options.showFiles
                     ELSE options.showDirectories)

\* The code after the command has run; nothing printed gives [].
FindResults(st, options, stdout) ==
    IF stdout = <<>> THEN st
    ELSE ListReturned(st, options,
             FindSort(<<>>, SelectSeq(stdout, LAMBDA fileInfo : FindKept(options, fileInfo)),
                      options.sortBy, options.sortDirection))

findFiles(st, options, ord) ==
    IF Stat(st, options.dirPath) = "ENOENT" THEN Throw(st, "Error")
    ELSE IF Resolve(options.dirPath) \in st.denied THEN Throw(st, "Error")
    ELSE IF ~options.showFiles /\ ~options.showDirectories THEN st
    ELSE FindResults(Logged(st, "exec", options.dirPath), options,
                     FindStdout(st, options, ord))

----------------------------------------------------------------------------
(* HttpPoll.execute (src/nodes/HttpPoll/HttpPoll.node.ts)                    *)
(* One step per turn of the polling loop.  What the server answers, and      *)
(* whether the timeout has passed when the loop condition is read, is the    *)
(* environment's choice.  lastError only feeds the text of the output and    *)
(* is left out.                                                              *)

\* if (attempt > 1000): "Safety: don't run forever"
SAFETY_LIMIT == 1000

\* execute has not been called.
PollIdle ==
    [pc |-> "idle", items |-> 0, itemIndex |-> 0, maxAttempts |-> 0,
     continueOnError |-> FALSE, attempt |-> 0, lastResponse |-> "none",
     returnData |-> <<>>, intervals |-> {}, redisClients |-> {}]

\* const cleanup = () => clearInterval(cancelCheckInterval)
cleanup(p) == [p EXCEPT !.intervals = @ \ {p.itemIndex}]

\* if (redisClient) await redisClient.quit()
quit(p) == [p EXCEPT !.redisClients = @ \ {p.itemIndex}]

\* returnData[0].push(...): kind is "success", "failure" (the output after the
\* loop), "cancelled" (safety limit) or "thrown" (the outer catch).
PushOutput(p, kind) ==
    [p EXCEPT !.returnData = Append(@, [item |-> p.itemIndex, kind |-> kind])]

\* The end of the body of the for loop over the items: the variables declared
\* in the body go out of scope.
NextItem(p) ==
    [p EXCEPT !.pc = "item", !.itemIndex = @ + 1, !.maxAttempts = 0,
              !.continueOnError = FALSE, !.attempt = 0, !.lastResponse = "none"]

\* The code behind the polling loop.
AfterLoop(p) ==
    NextItem(quit(cleanup(IF p.lastResponse # "match" THEN PushOutput(p, "failure")
                          ELSE p)))

\* One turn of the polling loop, attempt already counted up.
Attempted(p, outcome) ==
    IF p.attempt > SAFETY_LIMIT
    THEN [PushOutput(cleanup(p), "cancelled") EXCEPT !.pc = "returned"]
    ELSE CASE outcome = "match" ->
                 AfterLoop(quit(cleanup(PushOutput([p EXCEPT !.lastResponse = "match"],
                                                   "success"))))
           [] outcome = "nomatch" -> [p EXCEPT !.lastResponse = "nomatch"]
           [] outcome = "error" ->
                 IF p.continueOnError THEN p ELSE NextItem(PushOutput(p, "thrown"))

----------------------------------------------------------------------------
(* Bounds and inputs *)

\* The input items of one call of HttpPoll.execute.
MaxItems == 2

MaxEntries == 4     \* entries below the working directory in the initial tree
MaxPathLen == 3     \* segments of the paths handed to checkDirectorySafety

WorkDir == <<N_home, N_u, N_r>>
OutDir == <<N_home, N_u, N_t>>

\* Directories every tree has.
BaseDirs == {<<N_home>>, <<N_home, N_u>>, WorkDir, <<N_etc>>}

\* The entries a tree may have below the working directory.
CandidateDirs == {WorkDir \o q : q \in {<<N_s>>, <<N_s, N_s>>, <<N_t>>}}
CandidateFiles ==
    {WorkDir \o q : q \in {<<N_a_txt>>, <<N_a_1_txt>>, <<N_s, N_a_txt>>,
                           <<N_s, N_s, N_a_txt>>, <<N_t, N_a_txt>>}}

Trees ==
    {t \in [dirs : SUBSET CandidateDirs, files : SUBSET CandidateFiles] :
        /\ Cardinality(t.dirs) + Cardinality(t.files) <= MaxEntries
        /\ \A q \in t.dirs \cup t.files : Parent(q) \in t.dirs \cup BaseDirs}

\* Paths handed to the operations.
P_Work == Str(WorkDir)
P_Out == Str(OutDir)
P_Sub == Str(WorkDir \o <<N_s>>)
P_Inner == Str(WorkDir \o <<N_t>>)
P_File == Str(WorkDir \o <<N_a_txt>>)
P_Missing == Str(WorkDir \o <<N_x>>)
P_Shallow == Str(<<N_home, N_u>>)
P_Protected == Str(<<N_etc, N_x, N_y>>)
P_Deep == Str(WorkDir \o [i \in 1..(MAX_DIRECTORY_DEPTH - 2) |-> N_x])
RejectedPaths == {P_Shallow, P_Protected, P_Deep}

\* A chain of directories one level deeper than listDirectory ever walks.
DeepChain ==
    [dirs |-> {WorkDir \o [i \in 1..k |-> N_x] : k \in 1..(MAX_LIST_DEPTH + 1)},
     files |-> {}]

\* The directory s beside the directory t, which holds a file named s.
NameOfDirectory ==
    [dirs |-> {WorkDir \o <<N_s>>, WorkDir \o <<N_t>>},
     files |-> {WorkDir \o <<N_t, N_s>>, WorkDir \o <<N_a_txt>>}]

\* Trees beside those of Trees.
ExtraTrees == {DeepChain, NameOfDirectory}

\* Trees with names that sanitizeFileName changes.
DirtyTrees ==
    {t \in [dirs : SUBSET {WorkDir \o <<N_s_colon>>},
            files : SUBSET {WorkDir \o <<N_a_colon_b>>, WorkDir \o <<N_a_star_b>>,
                            WorkDir \o <<N_a_b>>,
                            WorkDir \o <<N_s_colon, N_a_colon_b>>}] :
        /\ \A q \in t.dirs \cup t.files : Parent(q) \in t.dirs \cup BaseDirs
        /\ \E q \in t.dirs \cup t.files : sanitizeFileName(q[Len(q)]) # q[Len(q)]}

Patterns == {<<>>, <<"s">>}

\* maxDepth lowered to 4: the working directory's grandchildren are too deep.
Limit4 == [minDepth |-> None, maxDepth |-> Some(4), allowProtectedDirs |-> None]
AllowProtected == [minDepth |-> None, maxDepth |-> None, allowProtectedDirs |-> Some(TRUE)]
FromDepth1 == [minDepth |-> Some(1), maxDepth |-> None, allowProtectedDirs |-> Some(FALSE)]
GuardConfigs == {NoConfig, AllowProtected, FromDepth1, Limit4}

GuardSegs == {N_etc, N_home, N_x, DotDot, Dot, EmptySeg}

RECURSIVE SeqsUpTo(_, _)
SeqsUpTo(S, n) ==
    IF n = 0 THEN {<<>>}
    ELSE LET shorter == SeqsUpTo(S, n - 1)
         IN  shorter \cup {Append(q, x) : q \in shorter, x \in S}

GuardPaths ==
    {<<EmptySeg>> \o q : q \in SeqsUpTo(GuardSegs, MaxPathLen) \ {<<>>}}
    \cup RejectedPaths
    \cup {Str(<<N_etc>> \o [i \in 1..MAX_DIRECTORY_DEPTH |-> N_x]),
          <<W_C>>, <<W_Windows>>, <<W_Windows, N_x>>, <<W_Windows, EmptySeg>>,
          <<N_x, N_x, N_x>>, <<EmptySeg>>}

DeleteArgs ==
    [dirPath : {P_Work, P_File}, pattern : Patterns, recursive : BOOLEAN,
     includeFiles : BOOLEAN, includeSubdirectories : BOOLEAN, deleteRootDir : BOOLEAN,
     useShell : BOOLEAN, fileExtensions : {<<>>, << <<"t", "x", "t">> >>},
     protectionConfig : {NoConfig}, stageTest : BOOLEAN]
    \cup
    [dirPath : RejectedPaths \cup {P_Missing}, pattern : {<<>>}, recursive : {TRUE},
     includeFiles : {TRUE}, includeSubdirectories : {TRUE}, deleteRootDir : BOOLEAN,
     useShell : BOOLEAN, fileExtensions : {<<>>},
     protectionConfig : {NoConfig}, stageTest : BOOLEAN]

MoveArgs ==
    [sourcePath : {P_Work, P_Sub, P_File}, targetDir : {P_Out, P_Inner},
     pattern : Patterns, recursive : BOOLEAN, includeFiles : BOOLEAN,
     includeSubdirectories : BOOLEAN, renameOnly : BOOLEAN,
     protectionConfig : {NoConfig}, stageTest : BOOLEAN]
    \cup
    [sourcePath : RejectedPaths \cup {P_Missing}, targetDir : {P_Out},
     pattern : {<<>>}, recursive : {TRUE}, includeFiles : {TRUE},
     includeSubdirectories : {TRUE}, renameOnly : BOOLEAN,
     protectionConfig : {NoConfig}, stageTest : BOOLEAN]
    \cup
    [sourcePath : {P_Work}, targetDir : RejectedPaths,
     pattern : {<<>>}, recursive : {TRUE}, includeFiles : {TRUE},
     includeSubdirectories : {TRUE}, renameOnly : BOOLEAN,
     protectionConfig : {NoConfig}, stageTest : BOOLEAN]

RenameArgs ==
    [sourcePath : {P_File, P_Sub, P_Missing, Str(<<N_etc>>)},
     targetPath : {Str(WorkDir \o <<N_b_txt>>), Str(OutDir \o <<N_b_txt>>),
                   Str(<<N_home, N_x>>)},
     pattern : {<<>>, <<"b">>}, replacement : {<<>>, <<"c">>},
     stageTest : BOOLEAN]

FlattenArgs ==
    [dirPath : {P_Work} \cup RejectedPaths \cup {P_Missing},
     protectionConfig : {NoConfig, Limit4}, shellWorks : BOOLEAN,
     denied : {{}, {WorkDir \o <<N_s, N_a_txt>>}}]

CleanArgs ==
    [dirPath : {P_Work, P_File} \cup RejectedPaths \cup {P_Missing},
     recursive : BOOLEAN, protectionConfig : {NoConfig, Limit4}]

CleanUnguardedArgs ==
    [dirPath : {P_Work, P_Shallow, P_Missing}, recursive : BOOLEAN]

FixArgs ==
    [dirPath : {P_Work, P_Shallow, P_Missing}, recursive : BOOLEAN,
     onlyDirectories : BOOLEAN, shellWorks : BOOLEAN, tick : {0, 1},
     denied : {{}, {WorkDir \o <<N_a_colon_b>>}}]

DeleteRootArgs == [directoryPath : {P_Work, P_Shallow, P_Missing, Str(<<N_etc>>)}]

GuardArgs == [dirPath : GuardPaths, config : GuardConfigs]

\* The Windows device names.
ReservedNames ==
    {<<"C", "O", "N">>, <<"P", "R", "N">>, <<"A", "U", "X">>, <<"N", "U", "L">>}
    \cup {<<"C", "O", "M", DigitChars[d + 1]>> : d \in 1..9}
    \cup {<<"L", "P", "T", DigitChars[d + 1]>> : d \in 1..9}

\* name with its upper case letters in lower case
ToLower(name) ==
    [i \in 1..Len(name) |->
        IF name[i] \in SeqToSet(UpperCase) THEN LowerCase[IndexIn(UpperCase, name[i])]
        ELSE name[i]]

SanitizeChars == {"a", ".", "_", ":", " ", "U+00E9"}
Repeat(c, n) == [i \in 1..n |-> c]

\* The names handed to sanitizeFileName: short names, device names in upper,
\* lower and mixed case, and names around the length limit.
SanitizeNames ==
    SeqsUpTo(SanitizeChars, MaxPathLen)
    \cup ReservedNames
    \cup {ToLower(n) : n \in ReservedNames}
    \cup {<<"C", "o", "n">>, <<"a", ":", "b", "*", "c">>, N_a_txt}
    \cup {Repeat("a", MAX_NAME_LENGTH), Repeat("a", MAX_NAME_LENGTH + 1),
          Repeat("a", MAX_NAME_LENGTH) \o <<".", "t", "x", "t">>,
          Repeat(":", MAX_NAME_LENGTH + 1),
          <<"a", ".">> \o Repeat("x", MAX_NAME_LENGTH + 1),
          <<"a", ".">> \o Repeat("x", MAX_NAME_LENGTH - 1)}

\* The names of the entries of the trees.
ListNames == {q[Len(q)] : q \in UNION {t.dirs \cup t.files : t \in Trees \cup ExtraTrees}}
             \cup {N_r}

\* What stat reports: all entries alike, or some newer and larger than others.
AllAlike == [n \in ListNames |-> [size |-> 1, mtime |-> 1]]
StatTables ==
    {AllAlike,
     [AllAlike EXCEPT ![N_a_txt] = [size |-> 2, mtime |-> 2]],
     [AllAlike EXCEPT ![N_s] = [size |-> 3, mtime |-> 2], ![N_a_1_txt] = [size |-> 0, mtime |-> 3]]}

SortKeys == {"name", "mtime", "type", "size", "depth", "path", "parent"}
ListDepths == {0, 1, 2, 3, MAX_LIST_DEPTH + 1}
ListPatterns == {<<>>, <<"s">>, <<"(">>}

ListDefaults ==
    [dirPath |-> P_Work, sortBy |-> "name", sortDirection |-> "asc", filter |-> <<>>,
     excludePattern |-> <<>>, showFiles |-> TRUE, showDirectories |-> TRUE,
     maxDepth |-> 3, onlyLeafDirs |-> FALSE, maxRecords |-> 100,
     returnSingleObject |-> FALSE, stats |-> AllAlike, denied |-> {}, failing |-> {}]

ListArgs ==
    {[ListDefaults EXCEPT !.maxDepth = m, !.showFiles = f, !.showDirectories = d,
                          !.onlyLeafDirs = l] :
        m \in ListDepths, f \in BOOLEAN, d \in BOOLEAN, l \in BOOLEAN}
    \cup
    {[ListDefaults EXCEPT !.sortBy = k, !.sortDirection = sd, !.stats = t] :
        k \in SortKeys, sd \in {"asc", "desc"}, t \in StatTables}
    \cup
    {[ListDefaults EXCEPT !.filter = f, !.excludePattern = e, !.maxRecords = n,
                          !.returnSingleObject = r] :
        f \in ListPatterns, e \in ListPatterns, n \in {1, 100}, r \in BOOLEAN}
    \cup
    {[ListDefaults EXCEPT !.dirPath = p] : p \in {P_Sub, P_File, P_Missing}}
    \cup
    {[ListDefaults EXCEPT !.denied = d, !.failing = f] :
        d \in {{}, {WorkDir}, {WorkDir \o <<N_s>>}},
        f \in {{}, {WorkDir \o <<N_s>>}, {WorkDir \o <<N_s, N_a_txt>>}}}

----------------------------------------------------------------------------
(* The state machine: one call of one operation on an arbitrary tree *)

Tree(t) == [dirs |-> BaseDirs \cup t.dirs, files |-> t.files]

\* The run state an operation starts in.
Start(tree, tick) ==
    [dirs |-> tree.dirs, files |-> tree.files, out |-> <<>>, err |-> "",
     log |-> <<>>, now |-> 1000, tick |-> tick, denied |-> {}]

\* The same with entries the process has no permission on: a rename of one
\* fails with EPERM, reading a directory among them with EACCES.
StartDenied(tree, tick, denied) == [Start(tree, tick) EXCEPT !.denied = denied]

Init ==
    /\ pre \in {Tree(t) : t \in Trees \cup ExtraTrees}
    /\ fs = pre
    /\ order \in {"asc", "desc"}
    /\ op = "none"
    /\ args = <<>>
    /\ out = <<>>
    /\ err = ""
    /\ log = <<>>
    /\ poll = PollIdle

\* The trees of Init and the trees with names to repair.
InitDirty ==
    /\ pre \in {Tree(t) : t \in Trees \cup ExtraTrees \cup DirtyTrees}
    /\ fs = pre
    /\ order \in {"asc", "desc"}
    /\ op = "none"
    /\ args = <<>>
    /\ out = <<>>
    /\ err = ""
    /\ log = <<>>
    /\ poll = PollIdle

Finish(name, a, st) ==
    /\ op' = name
    /\ args' = a
    /\ fs' = [dirs |-> st.dirs, files |-> st.files]
    /\ out' = st.out
    /\ err' = st.err
    /\ log' = st.log
    /\ UNCHANGED <<pre, order, poll>>

\* checkDirectorySafety reads no file: it is called on the bare tree only.
CheckDirectorySafety ==
    /\ op = "none"
    /\ fs = Tree([dirs |-> {}, files |-> {}])
    /\ \E a \in GuardArgs :
          Finish("checkDirectorySafety", a, Guard(Start(fs, 0), a.dirPath, a.config))

DeleteFiles ==
    /\ op = "none"
    /\ \E a \in DeleteArgs : Finish("deleteFiles", a, deleteFiles(Start(fs, 0), a, order))

MoveFiles ==
    /\ op = "none"
    /\ \E a \in MoveArgs : Finish("moveFiles", a, moveFiles(Start(fs, 0), a, order))

RenameOp ==
    /\ op = "none"
    /\ \E a \in RenameArgs : Finish("rename", a, rename(Start(fs, 0), a))

FlattenDirectory ==
    /\ op = "none"
    /\ \E a \in FlattenArgs :
          Finish("flattenDirectory", a,
                 flattenDirectory(StartDenied(fs, 0, a.denied), a.dirPath, a.protectionConfig,
                                  a.shellWorks, order))

CleanEmptyDirectories ==
    /\ op = "none"
    /\ \E a \in CleanArgs :
          Finish("cleanEmptyDirectories", a,
                 cleanEmptyDirectories(Start(fs, 0), a.dirPath, a.recursive,
                                       a.protectionConfig, TRUE, order))

CleanEmptyDirectoriesUnguarded ==
    /\ op = "none"
    /\ \E a \in CleanUnguardedArgs :
          Finish("cleanEmptyDirectoriesUnguarded", a,
                 cleanEmptyDirectories(Start(fs, 0), a.dirPath, a.recursive,
                                       NoConfig, FALSE, order))

FixFileNames ==
    /\ op = "none"
    /\ \E a \in FixArgs :
          Finish("fixFileNames", a,
                 fixFileNames(StartDenied(fs, a.tick, a.denied), a.dirPath, a.recursive,
                              a.onlyDirectories, a.shellWorks, order))

FsUtilsDeleteRoot ==
    /\ op = "none"
    /\ \E a \in DeleteRootArgs :
          Finish("FsUtils.deleteRootDir", a,
                 FsUtilsDeleteRootDir(Start(fs, 0), a.directoryPath))

\* sanitizeFileName reads no file: it is called on the bare tree only.
SanitizeFileName ==
    /\ op = "none"
    /\ fs = Tree([dirs |-> {}, files |-> {}])
    /\ \E n \in SanitizeNames :
          Finish("sanitizeFileName", [fileName |-> n],
                 Push(Start(fs, 0), sanitizeFileName(n)))

ListDirectory ==
    /\ op = "none"
    /\ \E a \in ListArgs : Finish("listDirectory", a,
                                 listDirectory(StartDenied(fs, 0, a.denied), a, order))

FindFiles ==
    /\ op = "none"
    /\ \E a \in ListArgs : Finish("findFiles", a,
                                 findFiles(StartDenied(fs, 0, a.denied), a, order))

\* The parameters of one input item of HttpPoll.
PollItemOptions ==
    [maxAttempts : {0, 1, 2, SAFETY_LIMIT + 1}, continueOnError : BOOLEAN,
     redis : BOOLEAN]

\* HttpPoll.execute is called with 1..MaxItems input items.  It reads no file:
\* it is called on the bare tree only.
HttpPollExecute ==
    /\ op = "none"
    /\ fs = Tree([dirs |-> {}, files |-> {}])
    /\ \E n \in 1..MaxItems :
          /\ op' = "HttpPoll.execute"
          /\ args' = [items |-> n]
          /\ poll' = [PollIdle EXCEPT !.pc = "item", !.items = n, !.itemIndex = 1]
    /\ UNCHANGED <<pre, fs, order, out, err, log>>

\* The parameters of the item are read, the Redis client is opened (when
\* Redis is on), the cancel-check interval is created.
PollBeginItem ==
    /\ poll.pc = "item"
    /\ poll.itemIndex <= poll.items
    /\ \E o \in PollItemOptions :
          poll' = [poll EXCEPT !.pc = "loop",
                               !.maxAttempts = o.maxAttempts,
                               !.continueOnError = o.continueOnError,
                               !.attempt = 0,
                               !.lastResponse = "none",
                               !.intervals = @ \cup {poll.itemIndex},
                               !.redisClients = IF o.redis THEN @ \cup {poll.itemIndex}
                                                ELSE @]
    /\ UNCHANGED <<pre, fs, order, op, args, out, err, log>>

\* The loop condition holds: one request is made.
PollAttempt ==
    /\ poll.pc = "loop"
    /\ poll.attempt < poll.maxAttempts
    /\ \E outcome \in {"match", "nomatch", "error"} :
          poll' = Attempted([poll EXCEPT !.attempt = @ + 1], outcome)
    /\ UNCHANGED <<pre, fs, order, op, args, out, err, log>>

\* The loop condition fails: the attempts are used up or the timeout has passed.
PollLoopExit ==
    /\ poll.pc = "loop"
    /\ poll' = AfterLoop(poll)
    /\ UNCHANGED <<pre, fs, order, op, args, out, err, log>>

\* The for loop is over: return returnData.
PollReturn ==
    /\ poll.pc = "item"
    /\ poll.itemIndex > poll.items
    /\ poll' = [poll EXCEPT !.pc = "returned"]
    /\ UNCHANGED <<pre, fs, order, op, args, out, err, log>>

Next ==
    \/ CheckDirectorySafety
    \/ DeleteFiles
    \/ MoveFiles
    \/ RenameOp
    \/ FlattenDirectory
    \/ CleanEmptyDirectories
    \/ CleanEmptyDirectoriesUnguarded
    \/ FixFileNames
    \/ FsUtilsDeleteRoot
    \/ ListDirectory
    \/ FindFiles
    \/ SanitizeFileName
    \/ HttpPollExecute
    \/ PollBeginItem
    \/ PollAttempt
    \/ PollLoopExit
    \/ PollReturn

Spec == Init /\ [][Next]_vars

TypeOK ==
    /\ fs.dirs \cap fs.files = {}
    /\ \A q \in fs.dirs \cup fs.files : Parent(q) = <<>> \/ Parent(q) \in fs.dirs

\* One operation at a time.
SpecGuard == Init /\ [][CheckDirectorySafety]_vars
SpecDelete == Init /\ [][DeleteFiles]_vars
SpecMove == Init /\ [][MoveFiles]_vars
SpecRelocate == Init /\ [][MoveFiles \/ RenameOp]_vars
SpecFlatten == Init /\ [][FlattenDirectory]_vars
SpecClean == Init /\ [][CleanEmptyDirectories \/ CleanEmptyDirectoriesUnguarded]_vars
SpecList == Init /\ [][ListDirectory]_vars
SpecBulk == InitDirty /\ [][FixFileNames \/ FlattenDirectory]_vars
SpecFind == Init /\ [][ListDirectory \/ FindFiles]_vars
SpecPoll ==
    Init /\ [][HttpPollExecute \/ PollBeginItem \/ PollAttempt \/ PollLoopExit
                 \/ PollReturn]_vars
SpecSanitize == Init /\ [][SanitizeFileName]_vars

----------------------------------------------------------------------------
(* Properties *)

Mutations == {"mkdir", "rename", "unlink", "rmdir", "exec"}

MutatingOps ==
    {"deleteFiles", "moveFiles", "rename", "flattenDirectory", "cleanEmptyDirectories",
     "cleanEmptyDirectoriesUnguarded", "fixFileNames", "FsUtils.deleteRootDir"}

\* The paths the operation was called on.
TargetPaths ==
    CASE op = "moveFiles" -> {args.sourcePath, args.targetDir}
      [] op = "rename" -> {args.sourcePath, args.targetPath}
      [] op = "FsUtils.deleteRootDir" -> {args.directoryPath}
      [] op = "none" -> {}
      [] OTHER -> {args.dirPath}

CheckedBefore(i, p) == \E j \in 1..(i - 1) : log[j] = [ev |-> "check", path |-> p]

OutOfRange(p) == PathDepth(p) < MIN_DIRECTORY_DEPTH \/ PathDepth(p) > MAX_DIRECTORY_DEPTH

Below(tree, root) == {q \in tree.dirs \cup tree.files : IsPrefix(root, q) /\ q # root}

\* C1: every mutating operation has passed each of its target paths through
\* checkDirectorySafety before its first side effect (mkdir, rename, unlink,
\* rmdir, spawned shell command).
C1_CheckBeforeSideEffect ==
    op \in MutatingOps =>
        \A i \in 1..Len(log) :
            log[i].ev \in Mutations => \A p \in TargetPaths : CheckedBefore(i, p)

\* C1, the case that breaks it: the deleteRootDir branch of the FsUtils node has
\* removed /home/u, two segments deep, and no check was made.
C1_UncheckedRootDelete ==
    /\ op = "FsUtils.deleteRootDir"
    /\ args.directoryPath = P_Shallow
    /\ err = ""
    /\ WorkDir \in pre.dirs /\ WorkDir \notin fs.dirs
    /\ \A i \in 1..Len(log) : log[i].ev # "check"

\* C2: for a path whose depth is below 3 or above 10, checkDirectorySafety with
\* the default policy throws, and deleteFiles, moveFiles (source or target),
\* flattenDirectory and cleanEmptyDirectories called on it leave the tree as it was.
C2_DepthRejection ==
    /\ (op = "checkDirectorySafety" /\ args.config = NoConfig /\ OutOfRange(args.dirPath))
            => err # ""
    /\ (/\ op \in {"deleteFiles", "flattenDirectory", "cleanEmptyDirectories"}
        /\ args.protectionConfig = NoConfig
        /\ OutOfRange(args.dirPath))
            => fs = pre
    /\ (op = "cleanEmptyDirectoriesUnguarded" /\ OutOfRange(args.dirPath)) => fs = pre
    /\ (/\ op = "moveFiles"
        /\ args.protectionConfig = NoConfig
        /\ OutOfRange(args.sourcePath) \/ OutOfRange(args.targetDir))
            => fs = pre

\* C2, the case that breaks it: the cleanEmptyDirectories that takes no
\* protectionConfig was called on /home/u and removed a directory.
C2_ShallowCleaned ==
    /\ op = "cleanEmptyDirectoriesUnguarded"
    /\ args.dirPath = P_Shallow
    /\ OutOfRange(args.dirPath)
    /\ err = ""
    /\ fs # pre

\* The entries of PROTECTED_DIRS that are a filesystem root.
RootEntries == {<<EmptySeg, EmptySeg>>, <<W_C>>}

\* n lies below e in the tree of names.
Descends(n, e) ==
    /\ IsAbsolute(n) = IsAbsolute(e)
    /\ Len(Parts(n)) > Len(Parts(e))
    /\ IsPrefix(Parts(e), Parts(n))

\* checkDirectorySafety was called, allowProtectedDirs false, on a path that
\* equals an entry of PROTECTED_DIRS or lies below one of the given entries.
ProtectedCall(entries) ==
    /\ op = "checkDirectorySafety"
    /\ ~Coalesce(args.config.allowProtectedDirs, FALSE)
    /\ \E e \in PROTECTED_DIRS :
          \/ Normalize(args.dirPath) = e
          \/ e \in entries /\ Descends(Normalize(args.dirPath), e)

\* C3, as amended: with allowProtectedDirs false, checkDirectorySafety throws
\* the protected-path error for every path that equals an entry of
\* PROTECTED_DIRS or lies below an entry that is not a filesystem root.
C3_ProtectedExceptBelowRoot ==
    ProtectedCall(PROTECTED_DIRS \ RootEntries) => err = "ProtectedPathError"

\* C3, as stated: with allowProtectedDirs false, checkDirectorySafety throws
\* for every path that equals or lies below any entry, the root '/' included.
C3_ProtectedAnyEntry == ProtectedCall(PROTECTED_DIRS) => err # ""

\* C3's case: a path three segments deep below /etc is rejected as protected.
C3_BelowEtcRejected ==
    /\ op = "checkDirectorySafety"
    /\ args.dirPath = P_Protected
    /\ args.config = NoConfig
    /\ ~OutOfRange(args.dirPath)
    /\ err = "ProtectedPathError"

UnderProtectedRoot(p) ==
    \E e \in PROTECTED_DIRS \ RootEntries : Descends(Normalize(p), e)

\* C4, as amended: for a path below a protected root, checkDirectorySafety
\* throws when allowProtectedDirs is false; when it is true and the other
\* fields keep their defaults it returns exactly when the path's depth is
\* within 3..10, and throws the depth error otherwise.
C4_AllowProtectedKeepsDepth ==
    (op = "checkDirectorySafety" /\ UnderProtectedRoot(args.dirPath)) =>
        /\ ~Coalesce(args.config.allowProtectedDirs, FALSE) => err = "ProtectedPathError"
        /\ args.config = AllowProtected =>
              /\ ~OutOfRange(args.dirPath) => err = ""
              /\ OutOfRange(args.dirPath) => err = "DepthRangeError"

\* C4, as stated: for a path below a protected root, checkDirectorySafety
\* throws when allowProtectedDirs is false and returns when it is true and the
\* other fields keep their defaults.
C4_AllowProtectedReturns ==
    (op = "checkDirectorySafety" /\ UnderProtectedRoot(args.dirPath)) =>
        /\ ~Coalesce(args.config.allowProtectedDirs, FALSE) => err # ""
        /\ args.config = AllowProtected => err = ""

\* C4's case: /etc/x/y is let through once allowProtectedDirs is true.
C4_AllowedBelowEtc ==
    /\ op = "checkDirectorySafety"
    /\ args.dirPath = P_Protected
    /\ args.config = AllowProtected
    /\ err = ""

\* C5: with stageTest set, deleteFiles, moveFiles and rename leave the set of
\* files and directories as it was.
C5_DryRunNoMutation ==
    (op \in {"deleteFiles", "moveFiles", "rename"} /\ args.stageTest) => fs = pre

\* C5, the case that breaks it: rename called with stageTest has moved the entry.
C5_DryRunRenamed ==
    /\ op = "rename"
    /\ args.stageTest
    /\ err = ""
    /\ Resolve(args.sourcePath) \in pre.files \cup pre.dirs
    /\ Resolve(args.sourcePath) \notin fs.files \cup fs.dirs

\* The live run on an unmodified copy of the tree the dry run was made on.
LiveMove == moveFiles(Start(pre, 0), [args EXCEPT !.stageTest = FALSE], order)
LiveDelete == deleteFiles(Start(pre, 0), [args EXCEPT !.stageTest = FALSE], order)

\* C6: the list a dry run of moveFiles returns is the list the live run on the
\* same tree returns, and the live run completes.
C6_MoveDryRunPredictsLive ==
    (op = "moveFiles" /\ args.stageTest /\ err = "") =>
        LiveMove.err = "" /\ LiveMove.out = out

\* C6, the case that breaks it: the dry run lists a directory and a file in
\* it; the live run moves the file and then fails to move the directory.
C6_LiveMoveAborts ==
    /\ op = "moveFiles"
    /\ args.stageTest /\ args.recursive /\ args.includeFiles
    /\ err = ""
    /\ \E i, j \in 1..Len(out) :
          /\ Resolve(out[i]) \in pre.files
          /\ Resolve(out[j]) = Parent(Resolve(out[i]))
    /\ LiveMove.err = "ENOTEMPTY"

\* C7: the list a dry run of deleteFiles returns is the list the live run on
\* the same tree returns.
C7_DeleteDryRunPredictsLive ==
    (op = "deleteFiles" /\ args.stageTest /\ err = "") =>
        LiveDelete.err = "" /\ LiveDelete.out = out

\* C7, the case that breaks it: with useShell the dry run lists what find
\* prints and the live run returns the directory it was called on.
C7_ShellListsDiffer ==
    /\ op = "deleteFiles"
    /\ args.stageTest /\ args.useShell /\ ~args.deleteRootDir
    /\ err = ""
    /\ Len(out) >= 1
    /\ LiveDelete.err = ""
    /\ LiveDelete.out = <<args.dirPath>>
    /\ LiveDelete.out # out

\* The directories below the root that a run with includeSubdirectories selects.
MatchedDirs ==
    LET root == Resolve(args.dirPath)
    IN  {d \in pre.dirs :
            /\ IsPrefix(root, d) /\ d # root
            /\ args.recursive \/ Parent(d) = root
            /\ MatchesOptional(args.pattern, d[Len(d)])}

\* C8: a live deleteFiles with includeSubdirectories removes every directory
\* below the root whose name matches the pattern (every directory when there is
\* no pattern), with all that is in it, at any depth when recursive and among
\* the root's children otherwise.
C8_MatchedDirectoriesRemoved ==
    (/\ op = "deleteFiles"
     /\ ~args.stageTest /\ args.includeSubdirectories
     /\ err = "")
        => \A d \in MatchedDirs : Under(fs, d) = {}

\* C8, the case that breaks it: with useShell and a pattern the run completes
\* and the matching directory is still there.
C8_ShellLeavesDirectory ==
    /\ op = "deleteFiles"
    /\ ~args.stageTest /\ args.includeSubdirectories /\ args.useShell
    /\ ~args.deleteRootDir
    /\ args.pattern # <<>> /\ args.fileExtensions = <<>>
    /\ err = ""
    /\ \E d \in MatchedDirs : d \in fs.dirs

\* base_k.ext for the smallest k >= 1 that is not in use.
FirstFree(name, used) ==
    LET k == CHOOSE n \in 1..(Cardinality(used) + 1) :
                 /\ Suffixed(name, n) \notin used
                 /\ \A m \in 1..(n - 1) : Suffixed(name, m) \in used
    IN  IF name \notin used THEN name ELSE Suffixed(name, k)

\* The names in use in the root when the i-th record of out was made.
UsedBefore(i) ==
    ChildNames(pre, Resolve(args.dirPath))
    \cup {PathBasename(out[j].target) : j \in {k \in 1..(i - 1) : out[k].target # <<EmptySeg>>}}

\* C9: after flattenDirectory has completed with no rename refused, no
\* directory is left below the root, and every file that was in a
\* subdirectory is in the root under its own name when that was free and under base_k.ext, k the smallest free number
\* from 1, otherwise; the files of the root stay.
C9_Flatten ==
    (op = "flattenDirectory" /\ err = "" /\ args.denied = {}) =>
        LET root == Resolve(args.dirPath)
            moves == {i \in 1..Len(out) : out[i].target # <<EmptySeg>>}
        IN  /\ \A q \in Below(fs, root) : q \in fs.files /\ Parent(q) = root
            /\ \A f \in pre.files : Parent(f) = root => f \in fs.files
            /\ \A f \in pre.files :
                  (IsPrefix(root, f) /\ Parent(f) # root) =>
                      \E i \in moves : Resolve(out[i].source) = f
            /\ \A i \in moves :
                  /\ Resolve(out[i].source) \in pre.files
                  /\ out[i].target =
                        Str(Append(root, FirstFree(PathBasename(out[i].source),
                                                   UsedBefore(i))))
                  /\ Resolve(out[i].target) \in fs.files
            /\ \A i, j \in moves : out[i].target = out[j].target => i = j
            /\ Cardinality(Below(fs, root)) =
                  Cardinality({f \in pre.files : IsPrefix(root, f)})

\* C9's case: a.txt in each of two subdirectories; the root ends with a.txt and
\* a_1.txt and nothing else.
C9_TwoFilesSameName ==
    /\ op = "flattenDirectory"
    /\ err = ""
    /\ pre.files = {WorkDir \o <<N_s, N_a_txt>>, WorkDir \o <<N_t, N_a_txt>>}
    /\ Below(fs, WorkDir) = {WorkDir \o <<N_a_txt>>, WorkDir \o <<N_a_1_txt>>}
    /\ fs.files = Below(fs, WorkDir)

\* C10: after cleanEmptyDirectories has completed no file is gone or moved and
\* the root is still there; with recursive no directory below the root is
\* empty, and only directories that held no file are gone; without recursive
\* exactly the empty children of the root are gone.
C10_CleanEmptyDirectories ==
    (op \in {"cleanEmptyDirectories", "cleanEmptyDirectoriesUnguarded"} /\ err = "") =>
        LET root == Resolve(args.dirPath)
            gone == pre.dirs \ fs.dirs
        IN  /\ fs.files = pre.files
            /\ root \in fs.dirs
            /\ fs.dirs \subseteq pre.dirs
            /\ \A d \in gone : IsPrefix(root, d) /\ d # root
            /\ args.recursive =>
                  /\ \A d \in fs.dirs : (IsPrefix(root, d) /\ d # root) => Under(fs, d) # {d}
                  /\ \A d \in gone : Under(pre, d) \cap pre.files = {}
            /\ ~args.recursive =>
                  gone = {d \in pre.dirs : Parent(d) = root /\ Under(pre, d) = {d}}

\* C10's case: a directory that held only an empty directory is gone after
\* one recursive pass, and a file next to it is where it was.
C10_CascadeCollapsed ==
    /\ op = "cleanEmptyDirectories"
    /\ args.recursive
    /\ err = ""
    /\ WorkDir \o <<N_s, N_s>> \in pre.dirs
    /\ pre.files # {}
    /\ WorkDir \o <<N_s>> \notin fs.dirs
    /\ fs.files = pre.files

----------------------------------------------------------------------------
(* listDirectory *)

\* The entries listDirectory returned; the object it returns for no result
\* with returnSingleObject is none of them.
Listed ==
    IF op = "listDirectory" /\ err = ""
    THEN IF args.returnSingleObject
         THEN IF out.path = <<>> THEN <<>> ELSE <<out>>
         ELSE out
    ELSE <<>>

\* The levels between the listed directory and the entry.
LevelsBelowRoot(e) == Len(Resolve(e.path)) - Len(Resolve(args.dirPath))

\* C11: every entry listDirectory returns is an entry of the tree below the
\* listed directory, its depth is the number of levels between the two, and
\* the depth lies between 1 and min(max(maxDepth, 1), 9).
C11_ListDepth ==
    \A i \in 1..Len(Listed) :
        /\ Exists(pre, Resolve(Listed[i].path))
        /\ IsPrefix(Resolve(args.dirPath), Resolve(Listed[i].path))
        /\ Listed[i].depth = LevelsBelowRoot(Listed[i])
        /\ 1 <= Listed[i].depth
        /\ Listed[i].depth <= Min(Max(args.maxDepth, 1), 9)

\* C11's case: the tree goes three levels down, maxDepth is 2, and exactly the
\* entries of the first two levels are returned.
C11_TwoOfThreeLevels ==
    /\ op = "listDirectory"
    /\ args.maxDepth = 2 /\ args.showFiles /\ args.showDirectories /\ ~args.onlyLeafDirs
    /\ WorkDir \o <<N_s, N_s, N_a_txt>> \in pre.files
    /\ {Resolve(Listed[i].path) : i \in 1..Len(Listed)}
          = {q \in Under(pre, WorkDir) : Len(q) - Len(WorkDir) \in 1..2}
    /\ \E i \in 1..Len(Listed) : Listed[i].depth = 2

\* The paths of the entries listDirectory returned.
ListedPaths == {Resolve(Listed[i].path) : i \in 1..Len(Listed)}

\* The directory rp of the tree the call started on has a subdirectory.
HasSubDir(rp) == \E q \in pre.dirs : Parent(q) = rp

\* The entries of the tree that a walk from dirPath down to maxDepth meets.
WithinMaxDepth ==
    {q \in Under(pre, Resolve(args.dirPath)) :
        /\ 1 <= Len(q) - Len(Resolve(args.dirPath))
        /\ Len(q) - Len(Resolve(args.dirPath)) <= Min(Max(args.maxDepth, 1), 9)}

KeyNotAfter(a, b, sortBy) ==
    CASE sortBy = "name" -> localeCompare(a.name, b.name) <= 0
      [] sortBy = "type" -> localeCompare(TypeChars[a.type], TypeChars[b.type]) <= 0
      [] sortBy = "path" -> localeCompare(PathChars(a.path), PathChars(b.path)) <= 0
      [] sortBy = "parent" -> localeCompare(PathChars(a.parent), PathChars(b.parent)) <= 0
      [] sortBy = "mtime" -> a.mtime <= b.mtime
      [] sortBy = "size" -> a.size <= b.size
      [] sortBy = "depth" -> a.depth <= b.depth

\* C13: with sortDirection 'asc' the list listDirectory returns is
\* non-decreasing in the sort key, for each of the keys name, mtime, type,
\* size, depth, path and parent.
C13_SortedAscending ==
    (/\ op = "listDirectory" /\ err = "" /\ ~args.returnSingleObject
     /\ args.sortDirection = "asc" /\ args.sortBy \in SortKeys) =>
        \A i \in 1..(Len(out) - 1) : KeyNotAfter(out[i], out[i + 1], args.sortBy)

\* C13's case: sorted by mtime ascending, a newer entry is returned before an
\* older one.
C13_NewestFirst ==
    /\ op = "listDirectory" /\ err = "" /\ ~args.returnSingleObject
    /\ args.sortDirection = "asc" /\ args.sortBy = "mtime"
    /\ \E i \in 1..Len(out) : \E j \in (i + 1)..Len(out) : out[i].mtime > out[j].mtime

Reverse(sq) == [i \in 1..Len(sq) |-> sq[Len(sq) + 1 - i]]

\* What the same call returns on the same tree with sortDirection 'asc'.
AscendingList ==
    listDirectory(StartDenied(pre, 0, args.denied),
                  [args EXCEPT !.sortDirection = "asc"], order).out

\* A call sorted by name, descending, that returns the whole list.
SortedByNameDescending ==
    /\ op = "listDirectory" /\ err = "" /\ ~args.returnSingleObject
    /\ args.sortBy = "name" /\ args.sortDirection = "desc"
    /\ Len(AscendingList) < args.maxRecords

\* The place of the entry e in the list sq.
PlaceIn(sq, e) == CHOOSE i \in 1..Len(sq) : sq[i] = e

UnfilteredList == listDirectory(Start(pre, 0), [args EXCEPT !.filter = <<>>], order)

\* C15: a filter that is not a valid regular expression makes listDirectory
\* throw nothing and return what it returns without filter.
C15_InvalidFilterIgnored ==
    (op = "listDirectory" /\ args.filter # <<>> /\ RegExpThrows(args.filter)) =>
        err = "" /\ out = UnfilteredList.out

\* C15's case: listDirectory was called on a directory with entries with the
\* filter "(" and threw.
C15_FilterThrew ==
    /\ op = "listDirectory"
    /\ args.filter = <<"(">>
    /\ UnfilteredList.err = "" /\ UnfilteredList.out # <<>>
    /\ err = "SyntaxError"

----------------------------------------------------------------------------
(* sanitizeFileName *)

\* C16: sanitizeFileName applied to its own result returns that result.
C16_Idempotent ==
    op = "sanitizeFileName" => sanitizeFileName(out[1]) = out[1]

\* C16's case: the extension of the name is longer than 255 characters; the
\* result is the extension alone, and a second pass cuts it.
C16_LongExtension ==
    /\ op = "sanitizeFileName"
    /\ Len(Extname(args.fileName)) > MAX_NAME_LENGTH
    /\ out[1] = Extname(args.fileName)
    /\ Len(sanitizeFileName(out[1])) = MAX_NAME_LENGTH

\* name is a Windows device name, in any letter case.
IsReservedName(name) == ToLower(name) \in {ToLower(r) : r \in ReservedNames}

\* C17: sanitizeFileName puts "_" in front of a Windows device name, written
\* in any letter case, leaves none of the characters < > : " / \ | ? * in its
\* result, and maps a:b*c to a_b_c.
C17_ReservedAndIllegal ==
    op = "sanitizeFileName" =>
        /\ IsReservedName(args.fileName) => out[1] = <<"_">> \o args.fileName
        /\ \A i \in 1..Len(out[1]) : out[1][i] \notin WindowsIllegalChars
        /\ args.fileName = <<"a", ":", "b", "*", "c">> => out[1] = <<"a", "_", "b", "_", "c">>

\* C17's case: sanitizeFileName was applied to CON and returned CON.
C17_DeviceNameKept ==
    /\ op = "sanitizeFileName"
    /\ args.fileName = <<"C", "O", "N">>
    /\ out[1] = <<"C", "O", "N">>

\* The last segment of a path string or of a resolved path.
NameOf(p) == p[Len(p)]

\* fixFileNames on the whole tree below dirPath has returned, and no record
\* of its result reports a failure.
FixedAll ==
    /\ op = "fixFileNames"
    /\ args.recursive /\ ~args.onlyDirectories
    /\ err = ""
    /\ \A i \in 1..Len(out) : out[i].success

\* C18: after fixFileNames(root, recursive = true, onlyDirectories = false) has
\* returned without a reported failure, every entry below root has the name
\* sanitizeFileName gives it, and the record of an entry whose name had to
\* change carries in newPath the path the entry now has.
C18_AllNamesSanitized ==
    FixedAll =>
        /\ \A q \in Below(fs, Resolve(args.dirPath)) :
              sanitizeFileName(NameOf(q)) = NameOf(q)
        /\ \A i \in 1..Len(out) :
              sanitizeFileName(NameOf(out[i].originalPath)) # NameOf(out[i].originalPath)
                  => /\ out[i].newPath # out[i].originalPath
                     /\ Exists(fs, Resolve(out[i].newPath))

\* C18's case: the host runs the shell commands; a:b is still in the root, and
\* its record reports success with newPath the old path.
C18_ShellLeftName ==
    /\ FixedAll
    /\ args.shellWorks /\ args.dirPath = P_Work
    /\ WorkDir \o <<N_a_colon_b>> \in fs.files
    /\ \E i \in 1..Len(out) :
          /\ out[i].originalPath = Str(WorkDir \o <<N_a_colon_b>>)
          /\ out[i].newPath = out[i].originalPath

\* The paths whose rename the system refused during the operation.
Refused == {log[i].path : i \in {k \in 1..Len(log) : log[k].ev = "refused"}}

\* r is a record for the entry at path p that tells the caller of the failure.
ReportsFailure(r, p) ==
    /\ "originalPath" \in DOMAIN r /\ r.originalPath = p
    /\ "success" \in DOMAIN r /\ ~r.success
    /\ "error" \in DOMAIN r /\ r.error # ""

\* The entries other than the refused ones have been dealt with.
OthersProcessed ==
    IF op = "flattenDirectory"
    THEN \A q \in fs.files :
            IsPrefix(Resolve(args.dirPath), q)
                => Parent(q) = Resolve(args.dirPath) \/ Str(q) \in Refused
    ELSE (args.recursive /\ ~args.onlyDirectories)
            => \A q \in Below(fs, Resolve(args.dirPath)) :
                  sanitizeFileName(NameOf(q)) = NameOf(q) \/ Str(q) \in Refused

\* C19: when the rename of an entry fails in fixFileNames or in the file-move
\* phase of flattenDirectory, the operation does not throw, the other entries
\* are processed, and the returned result holds for the failed entry a record
\* with success = false and an error message.
C19_FailureRecorded ==
    (op \in {"fixFileNames", "flattenDirectory"} /\ Refused # {}) =>
        /\ err = ""
        /\ OthersProcessed
        /\ \A p \in Refused : \E i \in 1..Len(out) : ReportsFailure(out[i], p)

\* C19's case: flattenDirectory could not move s/a.txt; it moved t/a.txt, and
\* the record it returns for s/a.txt has the fields source and target only.
C19_FlattenHidesFailure ==
    /\ op = "flattenDirectory"
    /\ err = ""
    /\ Refused = {Str(WorkDir \o <<N_s, N_a_txt>>)}
    /\ WorkDir \o <<N_t, N_a_txt>> \in pre.files
    /\ WorkDir \o <<N_s, N_a_txt>> \in fs.files
    /\ \E i \in 1..Len(out) :
          /\ out[i].source = Str(WorkDir \o <<N_s, N_a_txt>>)
          /\ DOMAIN out[i] = {"source", "target"}
    /\ \E i \in 1..Len(out) :
          /\ out[i].source = Str(WorkDir \o <<N_t, N_a_txt>>)
          /\ DOMAIN out[i] = {"source", "target"}

\* The guarded cleanEmptyDirectories has thrown an error of the protection policy.
PolicyRejection ==
    /\ op = "cleanEmptyDirectories"
    /\ args.recursive
    /\ err \in {"DepthRangeError", "ProtectedPathError"}

\* C20: a recursive cleanEmptyDirectories that throws a depth-range or a
\* protected-path error has removed no directory before, also when the tree
\* below the root goes deeper than maxDepth.
C20_RejectionBeforeMutation ==
    PolicyRejection =>
        /\ \A i \in 1..Len(log) : log[i].ev \notin Mutations
        /\ fs = pre

\* C20's case: maxDepth is 4, the root is 3 deep; the empty directory t was
\* removed, then the call on s/s, 5 deep, threw the depth error.
C20_RemovedThenRejected ==
    /\ PolicyRejection
    /\ args.dirPath = P_Work /\ args.protectionConfig = Limit4
    /\ err = "DepthRangeError"
    /\ WorkDir \o <<N_s, N_s>> \in pre.dirs
    /\ WorkDir \o <<N_t>> \in pre.dirs \ fs.dirs
    /\ \E i \in 1..Len(log) :
          log[i].ev = "rmdir" /\ Resolve(log[i].path) = WorkDir \o <<N_t>>

\* moveFiles was called live on a directory, to move what is in it.
LiveDirectoryMove ==
    /\ op = "moveFiles"
    /\ ~args.stageTest /\ ~args.renameOnly
    /\ Resolve(args.sourcePath) \in pre.dirs

\* The entry that was at q is there no more.
Gone(q) ==
    \/ q \in pre.dirs /\ q \notin fs.dirs
    \/ q \in pre.files /\ q \notin fs.files

\* The options ask for the entry at q: its kind is included and its name matches.
Selected(q) ==
    /\ RegexTest(args.pattern, NameOf(q))
    /\ IF q \in pre.dirs THEN args.includeSubdirectories ELSE args.includeFiles

\* A directory between the source directory and q is gone.
AncestorGone(q) ==
    \E r \in Prefixes(q) :
        /\ r # q
        /\ r \in Below(pre, Resolve(args.sourcePath))
        /\ Gone(r)

\* C21: in a live directory move an entry leaves its path only when the
\* options select it (a subdirectory with includeSubdirectories, a file with
\* includeFiles, the name matching the pattern) or when a directory above it
\* was moved.
C21_OnlySelectedMoved ==
    LiveDirectoryMove =>
        \A q \in Below(pre, Resolve(args.sourcePath)) :
            Gone(q) => Selected(q) \/ AncestorGone(q)

\* C21's case: includeSubdirectories is false, and the subdirectory s of the
\* source is in the target directory after the call.
C21_SubdirectoryMovedAnyway ==
    /\ LiveDirectoryMove
    /\ err = ""
    /\ args.sourcePath = P_Work /\ args.targetDir = P_Out
    /\ ~args.includeSubdirectories
    /\ WorkDir \o <<N_s>> \in pre.dirs \ fs.dirs
    /\ OutDir \o <<N_s>> \in fs.dirs
    /\ P_Sub \in {out[i] : i \in 1..Len(out)}

\* The entries listDirectory or findFiles returned; the object returned for
\* no result with returnSingleObject is none of them.
Returned ==
    IF op \notin {"listDirectory", "findFiles"} \/ err # "" THEN <<>>
    ELSE IF op = "findFiles" /\ FindStdout(StartDenied(pre, 0, args.denied), args, order) = <<>> THEN <<>>
    ELSE IF args.returnSingleObject
    THEN IF out.path = <<>> THEN <<>> ELSE <<out>>
    ELSE out

\* C22: every entry listDirectory or findFiles returns is strictly below the
\* directory the call was made on, and the entries with depth 1 are the
\* entries directly in that directory.
C22_RootNeverReturned ==
    \A i \in 1..Len(Returned) :
        /\ Resolve(Returned[i].path) # Resolve(args.dirPath)
        /\ IsPrefix(Resolve(args.dirPath), Resolve(Returned[i].path))
        /\ Returned[i].depth = 1
              <=> Parent(Resolve(Returned[i].path)) = Resolve(args.dirPath)

\* C22's case: findFiles on /home/u/r has returned /home/u/r/ itself, with
\* depth 1, beside the entry s of the directory, which has depth 1 as well.
C22_FindReturnsRoot ==
    /\ op = "findFiles" /\ err = ""
    /\ args.dirPath = P_Work /\ ~args.returnSingleObject
    /\ \E i \in 1..Len(out) :
          /\ out[i].path = WithSlash(P_Work)
          /\ out[i].name = N_r
          /\ out[i].depth = 1
    /\ \E i \in 1..Len(out) :
          /\ Resolve(out[i].path) = WorkDir \o <<N_s>>
          /\ out[i].depth = 1

\* q is below a directory the process may not read.
BelowDenied(q) == \E d \in args.denied : IsPrefix(d, q) /\ d # q

\* The walk of listDirectory meets an error that is no permission error on a
\* subdirectory: the listed directory is missing, is a file or may not be
\* read, or stat fails on an entry the walk comes to.
OtherListError ==
    \/ Stat(Start(pre, 0), args.dirPath) # "dir"
    \/ Resolve(args.dirPath) \in args.denied
    \/ \E q \in args.failing \cap WithinMaxDepth : ~BelowDenied(q)

\* C23: in listDirectory a directory below the root that may not be read
\* contributes no entry while everything beside it is listed, and any other
\* error, or any error on the root, makes the call fail.
C23_ListErrors ==
    op = "listDirectory" =>
        /\ \A i \in 1..Len(Listed) : ~BelowDenied(Resolve(Listed[i].path))
        /\ (/\ err = "" /\ ~OtherListError
            /\ args.filter = <<>> /\ args.excludePattern = <<>> /\ ~args.onlyLeafDirs
            /\ ~args.returnSingleObject /\ args.maxRecords > Cardinality(WithinMaxDepth)) =>
              \A q \in WithinMaxDepth :
                  (/\ ~BelowDenied(q)
                   /\ IF q \in pre.files THEN args.showFiles ELSE args.showDirectories)
                      => q \in ListedPaths
        /\ OtherListError => err # ""

\* C23's case: stat fails on s; the call returns the entry listed before s
\* and not the directory t listed after it, and reports no error.
C23_StatFailureHidden ==
    /\ op = "listDirectory" /\ err = ""
    /\ order = "asc"
    /\ args.dirPath = P_Work /\ args.denied = {} /\ args.failing = {WorkDir \o <<N_s>>}
    /\ {WorkDir \o <<N_s>>, WorkDir \o <<N_t>>} \subseteq pre.dirs
    /\ WorkDir \o <<N_a_txt>> \in pre.files
    /\ ListedPaths = {WorkDir \o <<N_a_txt>>}

\* The name sanitizeFileName has before its last step, the cut to 255.
Uncut(fileName) == NonBlank(CollapseUnderscores(ReplaceIllegal(KeepChars(fileName))))

\* C24: the name sanitizeFileName returns has at most 255 characters, and when
\* the name was cut its extension is the end of the result.
C24_AtMost255 ==
    op = "sanitizeFileName" =>
        /\ Len(out[1]) <= MAX_NAME_LENGTH
        /\ Len(Uncut(args.fileName)) > MAX_NAME_LENGTH
              => CharsEndWith(out[1], Extname(Uncut(args.fileName)))

\* C24's case: the name is a. followed by 256 letters; the result is the
\* extension, 257 characters long.
C24_ResultOverLimit ==
    /\ op = "sanitizeFileName"
    /\ Len(Basename(args.fileName, Extname(args.fileName))) = 1
    /\ Len(Extname(args.fileName)) = MAX_NAME_LENGTH + 2
    /\ Len(out[1]) = MAX_NAME_LENGTH + 2

\* The files at or below the directory rp.
FilesUnder(tree, rp) == {f \in tree.files : IsPrefix(rp, f)}

\* The records of flattenDirectory for files that have left their directory.
FlattenMoves ==
    {i \in 1..Len(out) : /\ out[i].target # <<EmptySeg>>
                         /\ Resolve(out[i].source) \notin fs.files}

\* C25: flattenDirectory leaves as many files below the root as there were,
\* every file of the root keeps its place, and every file it moves goes to a
\* path that neither an entry of the tree nor a file moved before it had.
C25_NoFileLost ==
    op = "flattenDirectory" =>
        /\ Cardinality(FilesUnder(fs, Resolve(args.dirPath)))
              = Cardinality(FilesUnder(pre, Resolve(args.dirPath)))
        /\ \A f \in pre.files : Parent(f) = Resolve(args.dirPath) => f \in fs.files
        /\ \A i \in FlattenMoves :
              /\ ~Exists(pre, Resolve(out[i].target))
              /\ Resolve(out[i].target) \in fs.files
              /\ \A j \in FlattenMoves : out[j].target = out[i].target => j = i

\* C25's case: the file s of the directory t finds the directory s in the
\* root and is moved to s_1, beside the file the root had.
C25_DirectoryInTheWay ==
    /\ op = "flattenDirectory" /\ err = ""
    /\ pre.files = {WorkDir \o <<N_t, N_s>>, WorkDir \o <<N_a_txt>>}
    /\ WorkDir \o <<N_s>> \in pre.dirs
    /\ fs.files = {WorkDir \o <<Suffixed(N_s, 1)>>, WorkDir \o <<N_a_txt>>}

\* fixFileNames has run its Node-native pass, fixFileNamesFallback.
NativeFix == op = "fixFileNames" /\ ~args.shellWorks

\* C26: the Node-native pass of fixFileNames overwrites no entry: there are as
\* many entries below the directory after it as before, and no two records
\* name the same new path, also when two collisions fall on one timestamp.
C26_NoOverwrite ==
    NativeFix =>
        /\ Cardinality(Below(fs, Resolve(args.dirPath)))
              = Cardinality(Below(pre, Resolve(args.dirPath)))
        /\ \A i, j \in 1..Len(out) :
              (out[i].success /\ out[j].success /\ out[i].newPath = out[j].newPath)
                  => i = j

\* C26's case: a:b, a*b and a_b are in the directory and the clock does not
\* move between the two collisions; both get the name with the same
\* timestamp, and two entries are left of the three.
C26_SameTimestamp ==
    /\ NativeFix /\ err = ""
    /\ args.dirPath = P_Work /\ args.tick = 0 /\ args.denied = {}
    /\ Below(pre, WorkDir) = {WorkDir \o <<N_a_colon_b>>, WorkDir \o <<N_a_star_b>>,
                              WorkDir \o <<N_a_b>>}
    /\ Below(fs, WorkDir) = {WorkDir \o <<N_a_b>>, WorkDir \o <<Suffixed(N_a_b, 1000)>>}
    /\ \A i \in 1..Len(out) : out[i].success

\* deleteFiles was called live, without deleteRootDir and without the shell.
NativeDelete ==
    /\ op = "deleteFiles"
    /\ ~args.stageTest /\ ~args.deleteRootDir /\ ~args.useShell

\* The entries of the tree that the call has removed.
Removed == (pre.dirs \cup pre.files) \ (fs.dirs \cup fs.files)

\* The options ask for the removal of the entry at q.
DeleteSelected(q) ==
    /\ MatchesOptional(args.pattern, NameOf(q))
    /\ IF q \in pre.dirs THEN args.includeSubdirectories ELSE args.includeFiles

\* Only selected entries strictly below dirPath, and what was in removed
\* directories, are gone; nothing was added; dirPath is as it was.
OnlySelectedRemoved ==
    /\ fs.dirs \subseteq pre.dirs /\ fs.files \subseteq pre.files
    /\ \A q \in Removed :
          /\ IsPrefix(Resolve(args.dirPath), q) /\ q # Resolve(args.dirPath)
          /\ \E r \in Prefixes(q) :
                /\ r \in Removed
                /\ r \in Below(pre, Resolve(args.dirPath))
                /\ DeleteSelected(r)
    /\ (~args.includeFiles /\ ~args.includeSubdirectories) => fs = pre

\* C27 as stated: a native deleteFiles run without deleteRootDir removes only
\* selected entries strictly below dirPath and what is in removed directories.
C27_NativeDeleteOnlyBelow == NativeDelete => OnlySelectedRemoved

\* C27 amended: the same, for a dirPath that is not a file.
C27_NativeDeleteInDirectory ==
    (NativeDelete /\ Resolve(args.dirPath) \notin pre.files) => OnlySelectedRemoved

\* C27's case: with includeFiles alone and recursive, the files whose names
\* match are gone, the file beside them and every directory are still there.
C27_MatchingFilesOnly ==
    /\ NativeDelete /\ err = ""
    /\ args.dirPath = P_Work /\ args.recursive
    /\ args.includeFiles /\ ~args.includeSubdirectories /\ args.pattern # <<>>
    /\ fs.dirs = pre.dirs
    /\ \E f \in Removed : Parent(f) # WorkDir
    /\ \E f \in fs.files : IsPrefix(WorkDir, f)

\* rename or a live moveFiles was called on a source path that does not exist.
MissingSource ==
    /\ op \in {"rename", "moveFiles"}
    /\ op = "moveFiles" => ~args.stageTest
    /\ ~Exists(pre, Resolve(args.sourcePath))

\* C28: rename and a live moveFiles called on a source path that does not
\* exist fail, and the tree is as it was: no directory has been created.
C28_MissingSourceNoChange == MissingSource => (err # "" /\ fs = pre)

\* C28's case: rename has failed on the missing source after it had created
\* the directory of the target path.
C28_TargetDirectoryCreated ==
    /\ MissingSource /\ op = "rename"
    /\ err = "ENOENT"
    /\ OutDir \notin pre.dirs
    /\ fs.dirs = pre.dirs \cup {OutDir}
    /\ fs.files = pre.files

----------------------------------------------------------------------------
(* HttpPoll *)

\* C29: when HttpPoll.execute returns, returnData holds one output for every
\* input item, in the order of the items.
C29_OneOutputPerItem ==
    poll.pc = "returned" =>
        /\ Len(poll.returnData) = poll.items
        /\ \A i \in 1..Len(poll.returnData) : poll.returnData[i].item = i

\* C29's case: the first of two items has run into the safety limit, and
\* execute has returned with the output of that item alone.
C29_SafetyLimitReturns ==
    /\ poll.pc = "returned"
    /\ poll.items = 2
    /\ poll.attempt = SAFETY_LIMIT + 1
    /\ poll.returnData = <<[item |-> 1, kind |-> "cancelled"]>>

\* C30: when the next item starts and when execute returns, no cancel-check
\* interval is running and no Redis client is open.
C30_ResourcesReleased ==
    poll.pc \in {"item", "returned"} =>
        poll.intervals = {} /\ poll.redisClients = {}

\* C30's case: a request of the first item failed with continueOnError off;
\* execute has returned, and the interval and the Redis client of the item
\* are still there.
C30_LeftAfterThrow ==
    /\ poll.pc = "returned"
    /\ poll.returnData[1] = [item |-> 1, kind |-> "thrown"]
    /\ 1 \in poll.intervals
    /\ 1 \in poll.redisClients

====
